---- MODULE Spec2Model ----
(***************************************************************************)
(* FlowSort (src/flowsort.py): the heuristic classifier and the file       *)
(* organisation engine (conflict-safe move into all/, relative symlink     *)
(* fan-out into the category directories, broken-symlink sweep, layout     *)
(* creation).                                                              *)
(*                                                                         *)
(* Strings are sequences of one-character strings, so that pathlib's       *)
(* suffix/stem, str.lower(), the f-string of the collision rename and the  *)
(* prefix/substring tests on MIME types are computed, not assumed.  A path *)
(* is a sequence of names (its components below the file-system root).     *)
(* Confidences are in tenths: 9 is 0.9 and 6 is 0.6.                       *)
(***************************************************************************)
EXTENDS Integers, Sequences, FiniteSets, TLC

VARIABLES
    config,         \* the Config the FlowSort instance was built from
    extension_map,  \* HeuristicClassifier.extension_map, built by __init__
    fs,             \* the file system: physical path -> entry
    subject,        \* the file name the classifier is asked about
    created,        \* how many files have arrived in the downloads directory
    returned,       \* content of a moved file -> the path move_file_to_all returned
    tag_manager,    \* the XattrTagManager: its field `enabled`
    refused,        \* attribute names the file system refuses to store
    writes,         \* how many modifying Tag Store calls have been made
    collectors,     \* the collect_downloads calls under way, each in its process
    last            \* the call that made the last step: arguments and result

vars == <<config, extension_map, fs, subject, created, returned, tag_manager,
          refused, writes, collectors, last>>

(***************************************************************************)
(* Strings.                                                                *)
(***************************************************************************)
UpperChars ==
    <<"A", "B", "C", "D", "E", "F", "G", "H", "I", "J", "K", "L", "M",
      "N", "O", "P", "Q", "R", "S", "T", "U", "V", "W", "X", "Y", "Z">>

LowerChars ==
    <<"a", "b", "c", "d", "e", "f", "g", "h", "i", "j", "k", "l", "m",
      "n", "o", "p", "q", "r", "s", "t", "u", "v", "w", "x", "y", "z">>

\* str.lower() on one ASCII character.
LowerChar(c) ==
    IF \E i \in DOMAIN UpperChars : UpperChars[i] = c
    THEN LowerChars[CHOOSE i \in DOMAIN UpperChars : UpperChars[i] = c]
    ELSE c

\* str.lower()
Lower(s) == [i \in 1..Len(s) |-> LowerChar(s[i])]

\* str.startswith(p)
StartsWith(s, p) == Len(p) <= Len(s) /\ SubSeq(s, 1, Len(p)) = p

\* p in s
Contains(s, p) ==
    \E i \in 1..(Len(s) - Len(p) + 1) : SubSeq(s, i, i + Len(p) - 1) = p

\* s.rfind("."), 1-based; 0 when s holds no dot.
RFindDot(s) ==
    LET I == {i \in 1..Len(s) : s[i] = "."}
    IN  IF I = {} THEN 0 ELSE CHOOSE i \in I : \A j \in I : j <= i

\* pathlib.PurePath.suffix of a file name: from the last dot, unless that
\* dot starts or ends the name.
PathSuffix(name) ==
    LET k == RFindDot(name)
    IN  IF 1 < k /\ k < Len(name) THEN SubSeq(name, k, Len(name)) ELSE <<>>

\* pathlib.PurePath.stem
PathStem(name) ==
    LET k == RFindDot(name)
    IN  IF 1 < k /\ k < Len(name) THEN SubSeq(name, 1, k - 1) ELSE name

DigitChars == <<"0", "1", "2", "3", "4", "5", "6", "7", "8", "9">>

\* str(n) for n >= 0, as the f-string of move_file_to_all formats it.
RECURSIVE Decimal(_)
Decimal(n) ==
    IF n < 10 THEN <<DigitChars[n + 1]>>
    ELSE Decimal(n \div 10) \o <<DigitChars[(n % 10) + 1]>>

(***************************************************************************)
(* Names the source spells out.                                            *)
(***************************************************************************)
all_ == <<"a", "l", "l">>
misc == <<"m", "i", "s", "c">>
by_date == <<"b", "y", "-", "d", "a", "t", "e">>
by_type == <<"b", "y", "-", "t", "y", "p", "e">>
INBOX == <<"I", "N", "B", "O", "X">>
DOCUMENTS == <<"D", "O", "C", "U", "M", "E", "N", "T", "S">>
ARCHIVE == <<"A", "R", "C", "H", "I", "V", "E">>
SYSTEM == <<"S", "Y", "S", "T", "E", "M">>
documents == <<"d", "o", "c", "u", "m", "e", "n", "t", "s">>
images == <<"i", "m", "a", "g", "e", "s">>
media == <<"m", "e", "d", "i", "a">>
archives == <<"a", "r", "c", "h", "i", "v", "e", "s">>

(***************************************************************************)
(* Config.categories: an ordered mapping (a dict keeps insertion order),   *)
(* category name -> extensions.                                            *)
(***************************************************************************)
DefaultCategories ==
    <<
      [name |-> <<"d", "o", "c", "u", "m", "e", "n", "t", "s">>,
       extensions |-> <<
             <<".", "p", "d", "f">>, <<".", "d", "o", "c">>,
             <<".", "d", "o", "c", "x">>, <<".", "t", "x", "t">>,
             <<".", "o", "d", "t">>, <<".", "r", "t", "f">>,
             <<".", "m", "d">>>>],
      [name |-> <<"i", "m", "a", "g", "e", "s">>,
       extensions |-> <<
             <<".", "j", "p", "g">>, <<".", "j", "p", "e", "g">>,
             <<".", "p", "n", "g">>, <<".", "g", "i", "f">>,
             <<".", "s", "v", "g">>, <<".", "b", "m", "p">>,
             <<".", "t", "i", "f", "f">>>>],
      [name |-> <<"a", "r", "c", "h", "i", "v", "e", "s">>,
       extensions |-> <<
             <<".", "z", "i", "p">>, <<".", "t", "a", "r">>,
             <<".", "g", "z">>, <<".", "r", "a", "r">>, <<".", "7", "z">>,
             <<".", "x", "z">>, <<".", "b", "z", "2">>>>],
      [name |-> <<"m", "e", "d", "i", "a">>,
       extensions |-> <<
             <<".", "m", "p", "4">>, <<".", "a", "v", "i">>,
             <<".", "m", "k", "v">>, <<".", "m", "o", "v">>,
             <<".", "m", "p", "3">>, <<".", "w", "a", "v">>,
             <<".", "f", "l", "a", "c">>>>],
      [name |-> <<"p", "a", "c", "k", "a", "g", "e", "s">>,
       extensions |-> <<
             <<".", "d", "e", "b">>, <<".", "r", "p", "m">>,
             <<".", "a", "p", "p", "i", "m", "a", "g", "e">>,
             <<".", "s", "n", "a", "p">>,
             <<".", "f", "l", "a", "t", "p", "a", "k">>>>],
      [name |-> <<"c", "o", "d", "e">>,
       extensions |-> <<
             <<".", "p", "y">>, <<".", "j", "s">>,
             <<".", "h", "t", "m", "l">>, <<".", "c", "s", "s">>,
             <<".", "j", "s", "o", "n">>, <<".", "x", "m", "l">>,
             <<".", "y", "m", "l">>, <<".", "y", "a", "m", "l">>>>],
      [name |-> <<"s", "p", "r", "e", "a", "d", "s", "h", "e", "e", "t", "s">>,
       extensions |-> <<
             <<".", "x", "l", "s">>, <<".", "x", "l", "s", "x">>,
             <<".", "c", "s", "v">>, <<".", "o", "d", "s">>>>],
      [name |-> <<"p", "r", "e", "s", "e", "n", "t", "a", "t", "i", "o", "n", "s">>,
       extensions |-> <<
             <<".", "p", "p", "t">>, <<".", "p", "p", "t", "x">>,
             <<".", "o", "d", "p">>>>]
    >>

CustomCategories ==
    <<
      [name |-> <<"r", "e", "s", "e", "a", "r", "c", "h">>,
       extensions |-> <<
             <<".", "b", "i", "b">>, <<".", "t", "e", "x">>>>],
      [name |-> <<"d", "a", "t", "a">>,
       extensions |-> <<
             <<".", "c", "s", "v">>, <<".", "j", "s", "o", "n">>,
             <<".", "x", "m", "l">>>>],
      [name |-> <<"c", "o", "n", "f", "i", "g", "s">>,
       extensions |-> <<
             <<".", "c", "o", "n", "f">>, <<".", "i", "n", "i">>,
             <<".", "c", "f", "g">>>>]
    >>

UpperCaseCategories ==
    <<
      [name |-> <<"d", "o", "c", "s">>,
       extensions |-> <<
             <<".", "P", "D", "F">>, <<".", "D", "o", "c">>>>]
    >>

DuplicateCategories ==
    <<
      [name |-> <<"f", "i", "r", "s", "t">>,
       extensions |-> <<
             <<".", "d", "a", "t">>>>],
      [name |-> <<"s", "e", "c", "o", "n", "d">>,
       extensions |-> <<
             <<".", "d", "a", "t">>, <<".", "B", "i", "n">>>>]
    >>

EmptyNameCategories ==
    <<
      [name |-> <<>>,
       extensions |-> <<
             <<".", "r", "a", "w">>>>],
      [name |-> <<"d", "o", "c", "u", "m", "e", "n", "t", "s">>,
       extensions |-> <<
             <<".", "p", "d", "f">>>>]
    >>

(***************************************************************************)
(* mimetypes.guess_type(str(file_path)) of the standard library, which     *)
(* HeuristicClassifier.classify_file calls: it reads the name only.  The   *)
(* suffix map and the encodings map are the library's; the types map is    *)
(* the part of the library's table the names below exercise.               *)
(***************************************************************************)
\* posixpath.splitext on a file name: the extension starts at the last dot,
\* unless only dots precede it.
SplitExt(p) ==
    LET k == RFindDot(p)
    IN  IF k > 0 /\ \E j \in 1..(k - 1) : p[j] # "."
        THEN [root |-> SubSeq(p, 1, k - 1), ext |-> SubSeq(p, k, Len(p))]
        ELSE [root |-> p, ext |-> <<>>]

\* mimetypes.suffix_map (matched lower-cased)
SuffixMap ==
    <<
      [ext |-> <<".", "s", "v", "g", "z">>,
       repl |-> <<".", "s", "v", "g", ".", "g", "z">>],
      [ext |-> <<".", "t", "g", "z">>,
       repl |-> <<".", "t", "a", "r", ".", "g", "z">>],
      [ext |-> <<".", "t", "a", "z">>,
       repl |-> <<".", "t", "a", "r", ".", "g", "z">>],
      [ext |-> <<".", "t", "z">>,
       repl |-> <<".", "t", "a", "r", ".", "g", "z">>],
      [ext |-> <<".", "t", "b", "z", "2">>,
       repl |-> <<".", "t", "a", "r", ".", "b", "z", "2">>],
      [ext |-> <<".", "t", "x", "z">>,
       repl |-> <<".", "t", "a", "r", ".", "x", "z">>]
    >>

\* mimetypes.encodings_map keys (matched case-sensitively)
EncodingsMap ==
    {<<".", "g", "z">>,
     <<".", "Z">>,
     <<".", "b", "z", "2">>,
     <<".", "x", "z">>,
     <<".", "b", "r">>}

\* mimetypes.types_map (matched lower-cased)
TypesMap ==
    <<
      [ext |-> <<".", "t", "x", "t">>,
       type |-> <<"t", "e", "x", "t", "/", "p", "l", "a", "i", "n">>],
      [ext |-> <<".", "c", "s", "v">>,
       type |-> <<"t", "e", "x", "t", "/", "c", "s", "v">>],
      [ext |-> <<".", "p", "n", "g">>,
       type |-> <<"i", "m", "a", "g", "e", "/", "p", "n", "g">>],
      [ext |-> <<".", "m", "p", "3">>,
       type |-> <<"a", "u", "d", "i", "o", "/", "m", "p", "e", "g">>],
      [ext |-> <<".", "m", "p", "4">>,
       type |-> <<"v", "i", "d", "e", "o", "/", "m", "p", "4">>],
      [ext |-> <<".", "p", "d", "f">>,
       type |-> <<"a", "p", "p", "l", "i", "c", "a", "t", "i", "o", "n", "/", "p", "d", "f">>],
      [ext |-> <<".", "z", "i", "p">>,
       type |-> <<"a", "p", "p", "l", "i", "c", "a", "t", "i", "o", "n", "/", "z", "i", "p">>],
      [ext |-> <<".", "t", "a", "r">>,
       type |-> <<"a", "p", "p", "l", "i", "c", "a", "t", "i", "o", "n", "/", "x", "-", "t", "a", "r">>],
      [ext |-> <<".", "j", "s", "o", "n">>,
       type |-> <<"a", "p", "p", "l", "i", "c", "a", "t", "i", "o", "n", "/", "j", "s", "o", "n">>],
      [ext |-> <<".", "7", "z">>,
       type |-> <<"a", "p", "p", "l", "i", "c", "a", "t", "i", "o", "n", "/", "x", "-", "7", "z", "-", "c", "o", "m", "p", "r", "e", "s", "s", "e", "d">>],
      [ext |-> <<".", "e", "m", "l">>,
       type |-> <<"m", "e", "s", "s", "a", "g", "e", "/", "r", "f", "c", "8", "2", "2">>]
    >>

\* No MIME type: guess_type's None.
NoMimeType == <<>>

RECURSIVE ApplySuffixMap(_)
ApplySuffixMap(se) ==
    IF \E i \in DOMAIN SuffixMap : SuffixMap[i].ext = Lower(se.ext)
    THEN LET i == CHOOSE i \in DOMAIN SuffixMap : SuffixMap[i].ext = Lower(se.ext)
         IN  ApplySuffixMap(SplitExt(se.root \o SuffixMap[i].repl))
    ELSE se

GuessType(name) ==
    LET se1 == ApplySuffixMap(SplitExt(name))
        se2 == IF se1.ext \in EncodingsMap THEN SplitExt(se1.root) ELSE se1
        ext == Lower(se2.ext)
    IN  IF \E i \in DOMAIN TypesMap : TypesMap[i].ext = ext
        THEN TypesMap[CHOOSE i \in DOMAIN TypesMap : TypesMap[i].ext = ext].type
        ELSE NoMimeType

(***************************************************************************)
(* HeuristicClassifier                                                     *)
(***************************************************************************)
\* The places (category index, extension index) of config.categories, in
\* the order __init__ visits them.
ExtensionPlaces(cfg) ==
    UNION {{<<i, j>> : j \in DOMAIN cfg.categories[i].extensions} :
              i \in DOMAIN cfg.categories}

\* HeuristicClassifier.__init__: self.extension_map.  The loop assigns
\* extension_map[ext.lower()] = category in visiting order, so the last place
\* that holds a key decides its category.
BuildExtensionMap(cfg) ==
    LET P == ExtensionPlaces(cfg)
        key(p) == Lower(cfg.categories[p[1]].extensions[p[2]])
        before(q, p) == q[1] < p[1] \/ (q[1] = p[1] /\ q[2] <= p[2])
        lastp(k) == CHOOSE p \in P :
                        key(p) = k /\ \A q \in P : key(q) = k => before(q, p)
    IN  [k \in {key(p) : p \in P} |-> cfg.categories[lastp(k)[1]].name]

\* A MIME fallback that knows no audio/* types.
MimeFallbackCategory_video_only(mime_type) ==
    IF mime_type = NoMimeType THEN misc
    ELSE IF StartsWith(mime_type, <<"t", "e", "x", "t", "/">>) THEN documents
    ELSE IF StartsWith(mime_type, <<"i", "m", "a", "g", "e", "/">>) THEN images
    ELSE IF StartsWith(mime_type, <<"v", "i", "d", "e", "o", "/">>) THEN media
    ELSE IF StartsWith(mime_type, <<"a", "p", "p", "l", "i", "c", "a", "t", "i", "o", "n", "/">>)
    THEN IF Contains(mime_type, <<"p", "d", "f">>) THEN documents
         ELSE IF \/ Contains(mime_type, <<"z", "i", "p">>)
                 \/ Contains(mime_type, <<"t", "a", "r">>)
                 \/ Contains(mime_type, <<"c", "o", "m", "p", "r", "e", "s", "s", "e", "d">>)
         THEN archives
         ELSE misc
    ELSE misc

\* HeuristicClassifier.classify_file, the fallback on the MIME type: the
\* category for what mimetypes.guess_type returned.
MimeFallbackCategory(mime_type) ==
    IF mime_type = NoMimeType THEN misc
    ELSE IF StartsWith(mime_type, <<"t", "e", "x", "t", "/">>) THEN documents
    ELSE IF StartsWith(mime_type, <<"i", "m", "a", "g", "e", "/">>) THEN images
    ELSE IF \/ StartsWith(mime_type, <<"v", "i", "d", "e", "o", "/">>)
            \/ StartsWith(mime_type, <<"a", "u", "d", "i", "o", "/">>)
    THEN media
    ELSE IF StartsWith(mime_type, <<"a", "p", "p", "l", "i", "c", "a", "t", "i", "o", "n", "/">>)
    THEN IF Contains(mime_type, <<"p", "d", "f">>) THEN documents
         ELSE IF \/ Contains(mime_type, <<"z", "i", "p">>)
                 \/ Contains(mime_type, <<"t", "a", "r">>)
                 \/ Contains(mime_type, <<"c", "o", "m", "p", "r", "e", "s", "s", "e", "d">>)
         THEN archives
         ELSE misc
    ELSE misc

\* A classifier that asks the MIME type first and the extension map only
\* when the MIME type decides nothing.
classify_file_mime_first(em, name) ==
    LET suffix == Lower(PathSuffix(name))
        by_mime == MimeFallbackCategory(GuessType(name))
    IN  IF by_mime # misc THEN by_mime
        ELSE IF suffix \in DOMAIN em THEN em[suffix]
        ELSE misc

\* HeuristicClassifier.classify_file
Heuristic_classify_file(em, name) ==
    LET suffix == Lower(PathSuffix(name))
    IN  IF suffix \in DOMAIN em THEN em[suffix]
        ELSE MimeFallbackCategory(GuessType(name))

\* Confidence of a direct extension match (0.9) and of anything else (0.6),
\* in tenths.
ExtensionConfidence == 9
MimeConfidence == 6

\* A get_confidence that reports a direct match for every registered
\* extension, whatever category it is asked about.
get_confidence_ignoring_category(em, name, category) ==
    LET suffix == Lower(PathSuffix(name))
    IN  IF suffix \in DOMAIN em THEN ExtensionConfidence ELSE MimeConfidence

\* HeuristicClassifier.get_confidence
Heuristic_get_confidence(em, name, category) ==
    LET suffix == Lower(PathSuffix(name))
    IN  IF suffix \in DOMAIN em /\ em[suffix] = category
        THEN ExtensionConfidence
        ELSE MimeConfidence

\* FlowSort.classify_file.  LLMClassifier.enabled is False (and an enabled
\* one would return None: its body is `pass`), so the heuristic classifier
\* decides in every case; a falsy category (the empty string) is replaced by
\* "misc".
FlowSort_classify_file(em, name) ==
    LET heuristic == Heuristic_classify_file(em, name)
        category == IF heuristic = <<>> THEN misc ELSE heuristic
    IN  [category |-> category,
         confidence |-> Heuristic_get_confidence(em, name, category)]

(***************************************************************************)
(* The file system.  fs maps each physical path that exists to its entry:  *)
(* a directory, a regular file (content, permission bits) or a symbolic    *)
(* link (its stored target, a relative path).  The root <<>> is the        *)
(* directory the tests call temp_dir.                                      *)
(***************************************************************************)
DirEntry == [kind |-> "dir"]
\* The extended attributes of a file: attribute name -> value.
NoXattrs == <<>>

FileEntry(content, mode) ==
    [kind |-> "file", content |-> content, mode |-> mode, xattrs |-> NoXattrs]
LinkEntry(target) == [kind |-> "link", target |-> target]

DotDot == <<".", ".">>
Dot == <<".">>

Parent(path) == SubSeq(path, 1, Len(path) - 1)
Basename(path) == path[Len(path)]

\* Symbolic links followed in one path resolution before the kernel gives
\* up (ELOOP).
MaxSymlinkHops == 4

\* Path resolution as the kernel does it: from the physical directory cur,
\* follow the components of rest ("..", ".", symbolic links).
RECURSIVE Walk(_, _, _, _)
Walk(f, cur, rest, hops) ==
    IF rest = <<>> THEN [ok |-> TRUE, path |-> cur]
    ELSE IF cur \notin DOMAIN f \/ f[cur].kind # "dir" THEN [ok |-> FALSE, path |-> cur]
    ELSE LET c == Head(rest)
             next == Append(cur, c)
         IN  IF c = DotDot
             THEN Walk(f, IF cur = <<>> THEN cur ELSE Parent(cur), Tail(rest), hops)
             ELSE IF c = Dot THEN Walk(f, cur, Tail(rest), hops)
             ELSE IF next \notin DOMAIN f THEN [ok |-> FALSE, path |-> next]
             ELSE IF f[next].kind = "link"
             THEN IF hops = 0 THEN [ok |-> FALSE, path |-> next]
                  ELSE Walk(f, cur, f[next].target \o Tail(rest), hops - 1)
             ELSE Walk(f, next, Tail(rest), hops)

\* os.path.realpath, when the path resolves.
RealPath(f, path) == Walk(f, <<>>, path, MaxSymlinkHops)

\* The physical place of the entry a path names, its last component not
\* followed (lstat).
EntryPath(f, path) ==
    LET dir == RealPath(f, Parent(path))
    IN  [ok |-> dir.ok /\ Append(dir.path, Basename(path)) \in DOMAIN f,
         path |-> Append(dir.path, Basename(path))]

\* Path.exists(): follows symbolic links; False for a broken link or a loop.
Exists(f, path) == RealPath(f, path).ok

\* Path.is_symlink()
IsSymlink(f, path) ==
    LET e == EntryPath(f, path) IN e.ok /\ f[e.path].kind = "link"

\* Path.is_file(): a regular file, or a symbolic link to one.
IsFile(f, path) ==
    LET r == RealPath(f, path) IN r.ok /\ f[r.path].kind = "file"

\* Path.is_dir(): a directory, or a symbolic link to one.
IsDir(f, path) ==
    LET r == RealPath(f, path) IN r.ok /\ f[r.path].kind = "dir"

\* The entries directly inside a directory (Path.iterdir()).
Children(f, dir) == {q \in DOMAIN f : q # <<>> /\ Parent(q) = dir}

\* Every physical path below a directory (Path.rglob("*"), which does not
\* descend through symbolic links).
Descendants(f, dir) ==
    {q \in DOMAIN f : Len(q) > Len(dir) /\ SubSeq(q, 1, Len(dir)) = dir}

\* What reading a path yields: the content of the regular file it resolves
\* to.
ReadFile(f, path) == f[RealPath(f, path).path].content

Remove(f, path) == [q \in (DOMAIN f) \ {path} |-> f[q]]
Put(f, path, entry) ==
    [q \in (DOMAIN f) \cup {path} |-> IF q = path THEN entry ELSE f[q]]

\* os.unlink(path)
Unlink(f, path) ==
    LET e == EntryPath(f, path)
    IN  IF ~e.ok THEN [ok |-> FALSE, fs |-> f, error |-> "FileNotFoundError"]
        ELSE IF f[e.path].kind = "dir"
        THEN [ok |-> FALSE, fs |-> f, error |-> "IsADirectoryError"]
        ELSE [ok |-> TRUE, fs |-> Remove(f, e.path), error |-> "none"]

\* os.symlink(target, path)
Symlink(f, target, path) ==
    LET dir == RealPath(f, Parent(path))
        place == Append(dir.path, Basename(path))
    IN  IF ~dir.ok THEN [ok |-> FALSE, fs |-> f, error |-> "FileNotFoundError"]
        ELSE IF f[dir.path].kind # "dir"
        THEN [ok |-> FALSE, fs |-> f, error |-> "NotADirectoryError"]
        ELSE IF place \in DOMAIN f
        THEN [ok |-> FALSE, fs |-> f, error |-> "FileExistsError"]
        ELSE [ok |-> TRUE, fs |-> Put(f, place, LinkEntry(target)), error |-> "none"]

\* A move that takes a source that is gone for a source already moved.
ShutilMove_missing_ok(f, src, dst) ==
    LET s == EntryPath(f, src)
        dir == RealPath(f, Parent(dst))
        place == Append(dir.path, Basename(dst))
    IN  IF ~s.ok THEN [ok |-> TRUE, fs |-> f, error |-> "none"]
        ELSE IF ~dir.ok \/ f[dir.path].kind # "dir"
        THEN [ok |-> FALSE, fs |-> f, error |-> "FileNotFoundError"]
        ELSE [ok |-> TRUE, fs |-> Put(Remove(f, s.path), place, f[s.path]),
              error |-> "none"]

\* shutil.move(src, dst) of a file onto a path that is no directory:
\* os.rename (source and destination are on one file system, as in the
\* tests' fixture), which takes the entry (content, permission bits and all;
\* a symbolic link as a link) from src and puts it at dst, replacing a
\* non-directory entry already there.
ShutilMove(f, src, dst) ==
    LET s == EntryPath(f, src)
        dir == RealPath(f, Parent(dst))
        place == Append(dir.path, Basename(dst))
    IN  IF ~s.ok THEN [ok |-> FALSE, fs |-> f, error |-> "FileNotFoundError"]
        ELSE IF ~dir.ok \/ f[dir.path].kind # "dir"
        THEN [ok |-> FALSE, fs |-> f, error |-> "FileNotFoundError"]
        ELSE [ok |-> TRUE, fs |-> Put(Remove(f, s.path), place, f[s.path]),
              error |-> "none"]

\* A relative path taken from the directory above start.
RelPath_from_parent(path, start) ==
    LET base == Parent(start)
        common == {i \in 0..Len(base) :
                      i <= Len(path) /\ SubSeq(path, 1, i) = SubSeq(base, 1, i)}
        i == CHOOSE k \in common : \A j \in common : j <= k
    IN  [j \in 1..(Len(base) - i) |-> DotDot] \o SubSeq(path, i + 1, Len(path))

\* os.path.relpath(path, start) for two absolute, normalised paths: climb
\* from start to the longest common prefix, then descend to path.
RelPath(path, start) ==
    LET common == {i \in 0..Len(start) :
                      i <= Len(path) /\ SubSeq(path, 1, i) = SubSeq(start, 1, i)}
        i == CHOOSE k \in common : \A j \in common : j <= k
        rel == [j \in 1..(Len(start) - i) |-> DotDot]
                   \o SubSeq(path, i + 1, Len(path))
    IN  IF rel = <<>> THEN <<Dot>> ELSE rel

\* Path.mkdir(parents=True), which raises when the directory is there.
Mkdir_exclusive(f, path) ==
    IF path \in DOMAIN f THEN [ok |-> FALSE, fs |-> f]
    ELSE [ok |-> TRUE,
          fs |-> [q \in (DOMAIN f) \cup {SubSeq(path, 1, i) : i \in 1..Len(path)} |->
                     IF q \in DOMAIN f THEN f[q] ELSE DirEntry]]

\* Path.mkdir(parents=True, exist_ok=True)
RECURSIVE Mkdir(_, _)
Mkdir(f, path) ==
    LET dir == RealPath(f, Parent(path))
        place == Append(dir.path, Basename(path))
    IN  IF path = <<>> THEN [ok |-> TRUE, fs |-> f]
        ELSE IF dir.ok /\ f[dir.path].kind # "dir" THEN [ok |-> FALSE, fs |-> f]
        ELSE IF dir.ok /\ place \in DOMAIN f THEN [ok |-> IsDir(f, path), fs |-> f]
        ELSE IF dir.ok THEN [ok |-> TRUE, fs |-> Put(f, place, DirEntry)]
        ELSE LET up == Mkdir(f, Parent(path))
             IN  IF up.ok THEN Mkdir(up.fs, path) ELSE up

(***************************************************************************)
(* Extended attributes (os.getxattr, os.setxattr, os.removexattr), which   *)
(* follow symbolic links.  A value is a string of bytes; InvalidByte is a  *)
(* byte that is no UTF-8.  Reading the user.* attributes of a file needs   *)
(* the owner's read bit, writing them the write bit.  The tag operations   *)
(* are called on files, symbolic links and missing paths; directories      *)
(* carry no attributes here.                                               *)
(***************************************************************************)
ReadableModes == {"rw-r--r--", "rw-------", "r--r--r--"}
WritableModes == {"rw-r--r--", "rw-------"}

InvalidByte == "\\xff"

\* os.getxattr(path, attr)
GetXattr(f, path, attr) ==
    LET r == RealPath(f, path)
    IN  IF ~r.ok THEN [ok |-> FALSE, errno |-> "ENOENT", value |-> <<>>]
        ELSE IF f[r.path].mode \notin ReadableModes
        THEN [ok |-> FALSE, errno |-> "EACCES", value |-> <<>>]
        ELSE IF attr \notin DOMAIN f[r.path].xattrs
        THEN [ok |-> FALSE, errno |-> "ENODATA", value |-> <<>>]
        ELSE [ok |-> TRUE, errno |-> "none", value |-> f[r.path].xattrs[attr]]

\* os.setxattr(path, attr, value)
SetXattr(f, path, attr, value) ==
    LET r == RealPath(f, path)
    IN  IF ~r.ok THEN [ok |-> FALSE, errno |-> "ENOENT", fs |-> f]
        ELSE IF f[r.path].mode \notin WritableModes
        THEN [ok |-> FALSE, errno |-> "EACCES", fs |-> f]
        ELSE IF attr \in refused
        THEN [ok |-> FALSE, errno |-> "ENOSPC", fs |-> f]
        ELSE [ok |-> TRUE, errno |-> "none",
              fs |-> [f EXCEPT ![r.path].xattrs =
                        [a \in (DOMAIN @) \cup {attr} |->
                            IF a = attr THEN value ELSE @[a]]]]

\* os.removexattr(path, attr)
RemoveXattr(f, path, attr) ==
    LET r == RealPath(f, path)
    IN  IF ~r.ok THEN [ok |-> FALSE, errno |-> "ENOENT", fs |-> f]
        ELSE IF f[r.path].mode \notin WritableModes
        THEN [ok |-> FALSE, errno |-> "EACCES", fs |-> f]
        ELSE IF attr \notin DOMAIN f[r.path].xattrs
        THEN [ok |-> FALSE, errno |-> "ENODATA", fs |-> f]
        ELSE [ok |-> TRUE, errno |-> "none",
              fs |-> [f EXCEPT ![r.path].xattrs =
                        IF DOMAIN @ = {attr} THEN NoXattrs
                        ELSE [a \in (DOMAIN @) \ {attr} |-> @[a]]]]

\* bytes.decode(): raises UnicodeDecodeError on a byte that is no UTF-8.
Decodable(value) == \A i \in DOMAIN value : value[i] # InvalidByte

(***************************************************************************)
(* Lists of tags as the Tag Store stores them: ",".join(sorted(tags)) on   *)
(* writing, [tag.strip() for tag in s.split(",") if tag.strip()] on        *)
(* reading.                                                                *)
(***************************************************************************)
\* The characters of the names and tags, in code point order.
CodePoints ==
    <<" ", ",", "-", ".">> \o DigitChars \o UpperChars \o <<"_">> \o LowerChars

Ord(c) == CHOOSE i \in DOMAIN CodePoints : CodePoints[i] = c

\* a < b for two strings (Python compares code point by code point).
StrLess(a, b) ==
    \E k \in 1..(Len(b)) :
        /\ k <= Len(a) + 1
        /\ SubSeq(a, 1, k - 1) = SubSeq(b, 1, k - 1)
        /\ \/ k = Len(a) + 1
           \/ Ord(a[k]) < Ord(b[k])

\* sorted(list): duplicates are kept.
RECURSIVE Sorted(_)
Sorted(list) ==
    IF list = <<>> THEN <<>>
    ELSE LET i == CHOOSE k \in DOMAIN list :
                      \A j \in DOMAIN list : ~StrLess(list[j], list[k])
             rest == [j \in 1..(Len(list) - 1) |->
                         IF j < i THEN list[j] ELSE list[j + 1]]
         IN  <<list[i]>> \o Sorted(rest)

\* list(dict.fromkeys(list)): the first occurrence of each, in order.
RECURSIVE FromKeys(_)
FromKeys(list) ==
    IF list = <<>> THEN <<>>
    ELSE LET front == FromKeys(SubSeq(list, 1, Len(list) - 1))
             x == list[Len(list)]
         IN  IF \E j \in DOMAIN front : front[j] = x THEN front
             ELSE Append(front, x)

\* sorted(list(set(list)))
SortedSet(list) == Sorted(FromKeys(list))

\* ",".join(list)
RECURSIVE Join(_)
Join(list) ==
    IF list = <<>> THEN <<>>
    ELSE IF Len(list) = 1 THEN list[1]
    ELSE list[1] \o <<",">> \o Join(Tail(list))

\* s.split(",")
RECURSIVE Split(_)
Split(s) ==
    LET I == {i \in DOMAIN s : s[i] = ","}
    IN  IF I = {} THEN <<s>>
        ELSE LET i == CHOOSE k \in I : \A j \in I : k <= j
             IN  <<SubSeq(s, 1, i - 1)>> \o Split(SubSeq(s, i + 1, Len(s)))

\* s.strip(), the white space being the blank.
Strip(s) ==
    LET I == {i \in DOMAIN s : s[i] # " "}
    IN  IF I = {} THEN <<>>
        ELSE SubSeq(s, CHOOSE k \in I : \A j \in I : k <= j,
                       CHOOSE k \in I : \A j \in I : j <= k)

\* [tag.strip() for tag in parts if tag.strip()]
RECURSIVE StripEach(_)
StripEach(parts) ==
    IF parts = <<>> THEN <<>>
    ELSE IF Strip(Head(parts)) # <<>>
    THEN <<Strip(Head(parts))>> \o StripEach(Tail(parts))
    ELSE StripEach(Tail(parts))

\* [tag.strip() for tag in tags_str.split(",") if tag.strip()]
ParseTags(tags_str) == StripEach(Split(tags_str))

\* x in list
InList(x, list) == \E i \in DOMAIN list : list[i] = x

\* str(confidence) of a confidence in tenths: 9 is written "0.9".
StrFloat(tenths) == Decimal(tenths \div 10) \o <<".">> \o Decimal(tenths % 10)

\* int(t) of a string of digits.
RECURSIVE ParseDigits(_)
ParseDigits(t) ==
    IF t = <<>> THEN 0
    ELSE 10 * ParseDigits(SubSeq(t, 1, Len(t) - 1))
            + (CHOOSE i \in DOMAIN DigitChars : DigitChars[i] = t[Len(t)]) - 1

\* float(s): the tenths of a string of the form <digits>.<digit>, which is
\* what str() writes; ValueError (ok = FALSE) on the other strings met here.
ParseFloat(s) ==
    LET digit(c) == \E i \in DOMAIN DigitChars : DigitChars[i] = c
        Num(t) == ParseDigits(t)
        val(c) == ParseDigits(<<c>>)
        n == Len(s)
    IN  IF /\ n >= 3
           /\ s[n - 1] = "."
           /\ \A i \in (1..n) \ {n - 1} : digit(s[i])
        THEN [ok |-> TRUE, value |-> 10 * Num(SubSeq(s, 1, n - 2)) + val(s[n])]
        ELSE [ok |-> FALSE, value |-> 0]

(***************************************************************************)
(* XattrTagManager: the Tag Store.  An operation yields its return value   *)
(* (`result`; an Optional is <<>> for None and <<v>> for a value v), the   *)
(* file system it leaves and the exception it raises, if any.              *)
(***************************************************************************)
category_attr == "user.flowsort.category"
tags_attr == "user.flowsort.tags"
confidence_attr == "user.flowsort.confidence"
xdg_tags_attr == "user.xdg.tags"

\* XattrTagManager.__init__: enabled = config.enable_tagging and
\* self._check_xattr_support(); probe is what the probe returns when run.
XattrTagManager(cfg, probe) == [enabled |-> cfg.enable_tagging /\ probe]

Returns(result, f) == [result |-> result, fs |-> f, raised |-> "none"]
Raises(result, f, exception) == [result |-> result, fs |-> f, raised |-> exception]

\* The try blocks of _get_flowsort_tags and _get_xdg_tags: OSError gives
\* None, a value that does not decode raises.
ReadTags(f, file_path, attr) ==
    LET r == GetXattr(f, file_path, attr)
    IN  IF ~r.ok THEN Returns(<<>>, f)
        ELSE IF ~Decodable(r.value) THEN Raises(<<>>, f, "UnicodeDecodeError")
        ELSE Returns(<<ParseTags(r.value)>>, f)

\* XattrTagManager._get_flowsort_tags
get_flowsort_tags(f, file_path) == ReadTags(f, file_path, tags_attr)

\* XattrTagManager._get_xdg_tags
get_xdg_tags(cfg, f, file_path) ==
    IF ~cfg.xdg_tags_compatibility THEN Returns(<<>>, f)
    ELSE ReadTags(f, file_path, xdg_tags_attr)

\* `x or []` of an Optional list.
OrEmpty(optional) == IF optional = <<>> THEN <<>> ELSE optional[1]

\* XattrTagManager.set_category
set_category(tm, cfg, f, file_path, category, confidence) ==
    IF ~tm.enabled THEN Returns(FALSE, f)
    ELSE
    LET w1 == SetXattr(f, file_path, category_attr, category)
        w2 == IF confidence # <<>>
              THEN SetXattr(w1.fs, file_path, confidence_attr,
                            StrFloat(confidence[1]))
              ELSE [ok |-> TRUE, errno |-> "none", fs |-> w1.fs]
        read == get_xdg_tags(cfg, w2.fs, file_path)
        existing_xdg_tags == OrEmpty(read.result)
        w3 == SetXattr(w2.fs, file_path, xdg_tags_attr,
                       Join(Sorted(Append(existing_xdg_tags, category))))
    IN  IF ~w1.ok THEN Returns(FALSE, w1.fs)
        ELSE IF ~w2.ok THEN Returns(FALSE, w2.fs)
        ELSE IF ~(cfg.xdg_tags_compatibility /\ cfg.auto_tag_categories)
        THEN Returns(TRUE, w2.fs)
        ELSE IF read.raised # "none" THEN Raises(FALSE, w2.fs, read.raised)
        ELSE IF InList(category, existing_xdg_tags) THEN Returns(TRUE, w2.fs)
        ELSE Returns(TRUE, w3.fs)

\* XattrTagManager.get_category
get_category(tm, f, file_path) ==
    IF ~tm.enabled THEN Returns(<<>>, f)
    ELSE
    LET r == GetXattr(f, file_path, category_attr)
    IN  IF ~r.ok THEN Returns(<<>>, f)
        ELSE IF ~Decodable(r.value) THEN Raises(<<>>, f, "UnicodeDecodeError")
        ELSE Returns(<<r.value>>, f)

\* XattrTagManager.get_confidence: OSError and ValueError (of which
\* UnicodeDecodeError is a kind) both give None.
Tag_get_confidence(tm, f, file_path) ==
    IF ~tm.enabled THEN Returns(<<>>, f)
    ELSE
    LET r == GetXattr(f, file_path, confidence_attr)
    IN  IF ~r.ok THEN Returns(<<>>, f)
        ELSE IF ~Decodable(r.value) \/ ~ParseFloat(r.value).ok
        THEN Returns(<<>>, f)
        ELSE Returns(<<ParseFloat(r.value).value>>, f)

\* XattrTagManager.add_tags
add_tags(tm, cfg, f, file_path, tags) ==
    IF ~tm.enabled THEN Returns(FALSE, f)
    ELSE
    LET read1 == get_flowsort_tags(f, file_path)
        read2 == get_xdg_tags(cfg, f, file_path)
        existing_tags == OrEmpty(read1.result)
        existing_xdg_tags == OrEmpty(read2.result)
        all_tags == IF cfg.preserve_existing_tags
                    THEN SortedSet(existing_tags \o tags) ELSE Sorted(tags)
        all_xdg_tags == IF cfg.preserve_existing_tags
                        THEN SortedSet(existing_xdg_tags \o tags)
                        ELSE Sorted(tags)
        xdg == SetXattr(f, file_path, xdg_tags_attr, Join(all_xdg_tags))
        backup == SetXattr(xdg.fs, file_path, tags_attr, Join(all_tags))
        only == SetXattr(f, file_path, tags_attr, Join(all_tags))
    IN  IF read1.raised # "none" THEN Raises(FALSE, f, read1.raised)
        ELSE IF read2.raised # "none" THEN Raises(FALSE, f, read2.raised)
        ELSE IF cfg.xdg_tags_compatibility /\ cfg.prefer_xdg_tags
        THEN Returns(xdg.ok, backup.fs)
        ELSE Returns(only.ok, only.fs)

\* XattrTagManager.get_tags
get_tags(tm, cfg, f, file_path) ==
    IF ~tm.enabled THEN Returns(<<>>, f)
    ELSE
    LET read1 == ReadTags(f, file_path, tags_attr)
        read2 == IF cfg.xdg_tags_compatibility
                 THEN ReadTags(f, file_path, xdg_tags_attr)
                 ELSE Returns(<<>>, f)
        all_tags == OrEmpty(read1.result) \o OrEmpty(read2.result)
    IN  IF read1.raised # "none" THEN Raises(<<>>, f, read1.raised)
        ELSE IF read2.raised # "none" THEN Raises(<<>>, f, read2.raised)
        ELSE IF all_tags # <<>> THEN Returns(<<FromKeys(all_tags)>>, f)
        ELSE Returns(<<>>, f)

\* [tag for tag in existing if tag not in tags]
RECURSIVE Remaining(_, _)
Remaining(existing, tags) ==
    IF existing = <<>> THEN <<>>
    ELSE IF InList(Head(existing), tags) THEN Remaining(Tail(existing), tags)
    ELSE <<Head(existing)>> \o Remaining(Tail(existing), tags)

\* A remove_tags that writes the list that remains even when it is empty.
remove_tags_writes_empty(tm, cfg, f, file_path, tags) ==
    IF ~tm.enabled THEN Returns(FALSE, f)
    ELSE
    LET read1 == get_flowsort_tags(f, file_path)
        w1 == SetXattr(f, file_path, tags_attr,
                       Join(Sorted(Remaining(OrEmpty(read1.result), tags))))
        read2 == get_xdg_tags(cfg, w1.fs, file_path)
        w2 == SetXattr(w1.fs, file_path, xdg_tags_attr,
                       Join(Sorted(Remaining(OrEmpty(read2.result), tags))))
    IN  IF read1.raised # "none" THEN Raises(FALSE, f, read1.raised)
        ELSE IF ~w1.ok THEN Returns(FALSE, w1.fs)
        ELSE IF ~cfg.xdg_tags_compatibility THEN Returns(TRUE, w1.fs)
        ELSE IF read2.raised # "none" THEN Raises(FALSE, w1.fs, read2.raised)
        ELSE Returns(w2.ok, w2.fs)

\* XattrTagManager.remove_tags
remove_tags(tm, cfg, f, file_path, tags) ==
    IF ~tm.enabled THEN Returns(FALSE, f)
    ELSE
    LET read1 == get_flowsort_tags(f, file_path)
        remaining_flowsort_tags == Remaining(OrEmpty(read1.result), tags)
        w1 == IF remaining_flowsort_tags # <<>>
              THEN SetXattr(f, file_path, tags_attr,
                            Join(Sorted(remaining_flowsort_tags)))
              ELSE [ok |-> TRUE, errno |-> "none",
                    fs |-> RemoveXattr(f, file_path, tags_attr).fs]
        read2 == get_xdg_tags(cfg, w1.fs, file_path)
        remaining_xdg_tags == Remaining(OrEmpty(read2.result), tags)
        w2 == IF remaining_xdg_tags # <<>>
              THEN SetXattr(w1.fs, file_path, xdg_tags_attr,
                            Join(Sorted(remaining_xdg_tags)))
              ELSE [ok |-> TRUE, errno |-> "none",
                    fs |-> RemoveXattr(w1.fs, file_path, xdg_tags_attr).fs]
    IN  IF read1.raised # "none" THEN Raises(FALSE, f, read1.raised)
        ELSE IF ~w1.ok THEN Returns(FALSE, w1.fs)
        ELSE IF ~cfg.xdg_tags_compatibility THEN Returns(TRUE, w1.fs)
        ELSE IF read2.raised # "none" THEN Raises(FALSE, w1.fs, read2.raised)
        ELSE Returns(w2.ok, w2.fs)

\* clear_all_tags without its `if not self.enabled` guard.
clear_all_tags_unguarded(tm, cfg, f, file_path) ==
    [result |-> RemoveXattr(f, file_path, category_attr).ok,
     fs |-> RemoveXattr(f, file_path, xdg_tags_attr).fs,
     raised |-> "none"]

\* XattrTagManager.clear_all_tags
clear_all_tags(tm, cfg, f, file_path) ==
    IF ~tm.enabled THEN Returns(FALSE, f)
    ELSE
    LET r1 == RemoveXattr(f, file_path, category_attr)
        r2 == RemoveXattr(r1.fs, file_path, tags_attr)
        r3 == RemoveXattr(r2.fs, file_path, confidence_attr)
        r4 == IF cfg.xdg_tags_compatibility
              THEN RemoveXattr(r3.fs, file_path, xdg_tags_attr)
              ELSE r3
    IN  Returns(r1.ok /\ r2.ok /\ r3.ok, r4.fs)

\* The dictionary get_all_metadata builds from what the three reads
\* return: a key is held when its Optional is not None.
Metadata(category, confidence, tags) ==
    IF category.raised # "none"
    THEN Raises([category |-> <<>>, confidence |-> <<>>, tags |-> <<>>],
                category.fs, category.raised)
    ELSE [result |-> [category |-> IF category.result = <<<<>>>> THEN <<>>
                                   ELSE category.result,
                      confidence |-> confidence.result,
                      tags |-> tags.result],
          fs |-> tags.fs,
          raised |-> tags.raised]

\* XattrTagManager.get_all_metadata: the keys the dictionary holds.
get_all_metadata(tm, cfg, f, file_path) ==
    IF ~tm.enabled THEN Returns([category |-> <<>>, confidence |-> <<>>,
                                 tags |-> <<>>], f)
    ELSE Metadata(get_category(tm, f, file_path),
                  Tag_get_confidence(tm, f, file_path),
                  get_tags(tm, cfg, f, file_path))

\* success &= set_category(...), then success &= add_tags(...) of copy_tags.
CopyTagList(tm, cfg, dest_path, metadata, s1) ==
    IF s1.raised # "none" THEN Raises(FALSE, s1.fs, s1.raised)
    ELSE IF metadata.tags = <<>> THEN s1
    ELSE [add_tags(tm, cfg, s1.fs, dest_path, metadata.tags[1])
            EXCEPT !.result = s1.result /\ @]

\* The body of copy_tags once the metadata are read.
CopyMetadata(tm, cfg, f, dest_path, read) ==
    IF read.raised # "none" THEN Raises(FALSE, f, read.raised)
    ELSE IF read.result.category = <<>> /\ read.result.confidence = <<>>
            /\ read.result.tags = <<>>
    THEN Returns(TRUE, f)
    ELSE CopyTagList(tm, cfg, dest_path, read.result,
                     IF read.result.category # <<>>
                     THEN set_category(tm, cfg, f, dest_path,
                                       read.result.category[1],
                                       read.result.confidence)
                     ELSE Returns(TRUE, f))

\* XattrTagManager.copy_tags
copy_tags(tm, cfg, f, source_path, dest_path) ==
    IF ~tm.enabled THEN Returns(FALSE, f)
    ELSE CopyMetadata(tm, cfg, f, dest_path,
                      get_all_metadata(tm, cfg, f, source_path))

(***************************************************************************)
(* Configurations.  The root paths are those of the tests' fixture         *)
(* (tests/conftest.py, test_config): temp_dir/flowsort_test/INBOX, ...,    *)
(* and temp_dir/test_downloads.  NonePath stands for a path that is None.  *)
(***************************************************************************)
flowsort_test == <<"f", "l", "o", "w", "s", "o", "r", "t", "_", "t", "e", "s", "t">>
test_downloads == <<"t", "e", "s", "t", "_", "d", "o", "w", "n", "l", "o", "a", "d", "s">>

NonePath == <<>>

MakeConfig(categories) ==
    [categories |-> categories,
     inbox_path |-> <<flowsort_test, INBOX>>,
     documents_path |-> <<flowsort_test, DOCUMENTS>>,
     archive_path |-> <<flowsort_test, ARCHIVE>>,
     system_path |-> <<flowsort_test, SYSTEM>>,
     downloads_path |-> <<test_downloads>>,
     enable_tagging |-> TRUE,
     auto_tag_categories |-> TRUE,
     preserve_existing_tags |-> TRUE,
     xdg_tags_compatibility |-> TRUE,
     prefer_xdg_tags |-> TRUE]

\* A configuration of two categories, for the file-system operations.
SmallCategories ==
    <<
      [name |-> documents,
       extensions |-> <<<<".", "t", "x", "t">>, <<".", "p", "d", "f">>>>],
      [name |-> images,
       extensions |-> <<<<".", "p", "n", "g">>>>]
    >>

ClassifyConfigs ==
    {MakeConfig(DefaultCategories), MakeConfig(CustomCategories),
     MakeConfig(UpperCaseCategories), MakeConfig(DuplicateCategories),
     MakeConfig(EmptyNameCategories), MakeConfig(<<>>)}

OrganizerConfigs == {MakeConfig(SmallCategories)}

\* The categories a configuration defines.
ConfigCategories(cfg) ==
    {cfg.categories[i].name : i \in DOMAIN cfg.categories}

(***************************************************************************)
(* File names given to the classifier: a stem, then up to two extensions   *)
(* (or a trailing dot).                                                    *)
(***************************************************************************)
ClassifyStems == {<<"r">>, <<"R">>, <<>>}

InnerExtensions ==
    {<<>>, <<".", "t", "x", "t">>, <<".", "T", "X", "T">>, <<".", "t", "a", "r">>}

OuterExtensions ==
    {<<>>, <<".">>,
     <<".", "p", "d", "f">>, <<".", "P", "D", "F">>, <<".", "P", "d", "f">>, <<".", "d", "o", "c">>, <<".", "t", "x", "t">>, <<".", "T", "X", "T">>,
     <<".", "Z">>, <<".", "z">>, <<".", "g", "z">>, <<".", "G", "Z">>, <<".", "t", "g", "z">>,
     <<".", "r", "a", "w">>, <<".", "R", "A", "W">>, <<".", "d", "a", "t">>, <<".", "b", "i", "n">>, <<".", "b", "i", "b">>, <<".", "x", "y", "z">>,
     <<".", "p", "n", "g">>, <<".", "m", "p", "3">>, <<".", "m", "p", "4">>, <<".", "z", "i", "p">>, <<".", "j", "s", "o", "n">>, <<".", "7", "z">>, <<".", "e", "m", "l">>}

ClassifyNames ==
    {s \o i \o o : s \in ClassifyStems, i \in InnerExtensions,
                   o \in OuterExtensions} \ {<<>>}

\* Categories get_confidence is asked about.
QueriedCategories(cfg) ==
    ConfigCategories(cfg) \cup {documents, images, media, archives, misc}

(***************************************************************************)
(* FlowSort: the organizer.                                                *)
(***************************************************************************)
\* base / name (pathlib drops an empty segment).
PathJoin(base, name) == IF name = <<>> THEN base ELSE Append(base, name)

\* FlowSort.setup_directories: the list `directories`, in its order.
Directories(cfg) ==
    LET category_dirs(base_path) ==
            [i \in DOMAIN cfg.categories |->
                PathJoin(base_path, cfg.categories[i].name)]
                \o <<PathJoin(base_path, misc)>>
    IN  <<PathJoin(cfg.inbox_path, all_),
          PathJoin(cfg.documents_path, all_),
          PathJoin(cfg.archive_path, all_),
          PathJoin(cfg.archive_path, by_date),
          PathJoin(cfg.archive_path, by_type),
          cfg.system_path>>
            \o category_dirs(cfg.inbox_path)
            \o category_dirs(cfg.documents_path)

\* for directory in directories: directory.mkdir(parents=True, exist_ok=True)
RECURSIVE MkdirEach(_, _)
MkdirEach(f, dirs) ==
    IF dirs = <<>> THEN [ok |-> TRUE, fs |-> f, error |-> "none"]
    ELSE LET made == Mkdir(f, Head(dirs))
         IN  IF made.ok THEN MkdirEach(made.fs, Tail(dirs))
             ELSE [ok |-> FALSE, fs |-> made.fs, error |-> "FileExistsError"]

\* A setup_directories that looks at inbox_path only before it creates.
setup_directories_inbox_only(f, cfg) ==
    IF cfg.inbox_path = NonePath
    THEN [ok |-> FALSE, fs |-> f, error |-> "ValueError"]
    ELSE MkdirEach(f, Directories(cfg))

\* FlowSort.setup_directories
setup_directories(f, cfg) ==
    IF \/ cfg.inbox_path = NonePath
       \/ cfg.documents_path = NonePath
       \/ cfg.archive_path = NonePath
       \/ cfg.system_path = NonePath
    THEN [ok |-> FALSE, fs |-> f, error |-> "ValueError"]
    ELSE MkdirEach(f, Directories(cfg))

\* FlowSort.move_file_to_all, the while loop from a given counter on: the
\* first {stem}_{counter}{suffix} that does not exist.
RECURSIVE FreeTarget(_, _, _, _, _)
FreeTarget(f, target_all_path, stem, suffix, counter) ==
    LET target_file ==
            Append(target_all_path, stem \o <<"_">> \o Decimal(counter) \o suffix)
    IN  IF Exists(f, target_file)
        THEN FreeTarget(f, target_all_path, stem, suffix, counter + 1)
        ELSE target_file

\* FlowSort.move_file_to_all
move_file_to_all(f, source_path, target_all_path) ==
    LET name == Basename(source_path)
        first == Append(target_all_path, name)
        target_file ==
            IF Exists(f, first)
            THEN FreeTarget(f, target_all_path, PathStem(name), PathSuffix(name), 1)
            ELSE first
        moved == ShutilMove(f, source_path, target_file)
    IN  [ok |-> moved.ok, fs |-> moved.fs, error |-> moved.error,
         result |-> target_file]

\* A link step that removes what is there only when it exists().
create_category_symlink_exists_only(f, real_file, category_dir) ==
    LET symlink_path == PathJoin(category_dir, Basename(real_file))
        removed ==
            IF Exists(f, symlink_path) THEN Unlink(f, symlink_path)
            ELSE [ok |-> TRUE, fs |-> f, error |-> "none"]
    IN  IF removed.ok
        THEN Symlink(removed.fs, RelPath(real_file, category_dir), symlink_path)
        ELSE removed

\* FlowSort.create_category_symlink
create_category_symlink(f, real_file, category_dir) ==
    LET symlink_path == PathJoin(category_dir, Basename(real_file))
        removed ==
            IF Exists(f, symlink_path) \/ IsSymlink(f, symlink_path)
            THEN Unlink(f, symlink_path)
            ELSE [ok |-> TRUE, fs |-> f, error |-> "none"]
        relative_path == RelPath(real_file, category_dir)
    IN  IF removed.ok THEN Symlink(removed.fs, relative_path, symlink_path)
        ELSE removed

\* FlowSort.cleanup_broken_symlinks, the loop over the items rglob yields
\* (in no specified order): each is tested when it is visited.
RECURSIVE SweepItems(_, _)
SweepItems(f, items) ==
    IF items = {} THEN f
    ELSE LET item == CHOOSE q \in items : TRUE
             swept == IF IsSymlink(f, item) /\ ~Exists(f, item)
                      THEN Unlink(f, item).fs
                      ELSE f
         IN  SweepItems(swept, items \ {item})

\* A sweep of the entries directly inside the directory (iterdir).
cleanup_broken_symlinks_top_level(f, directory) ==
    IF IsDir(f, directory) THEN SweepItems(f, Children(f, directory)) ELSE f

\* FlowSort.cleanup_broken_symlinks
cleanup_broken_symlinks(f, directory) ==
    IF IsDir(f, directory) THEN SweepItems(f, Descendants(f, directory)) ELSE f

\* What collect_downloads has done to one file: the file system it leaves,
\* the exception that leaves the loop (if any) and the step it comes from.
FileDone(f, raised, stage, target_file, category) ==
    [fs |-> f, raised |-> raised, stage |-> stage,
     target_file |-> target_file, category |-> category]

\* collect_downloads, the body of the loop once the file is moved and
\* linked: the tag, when tagging is on (what set_category returns is not
\* looked at; an exception it raises leaves the loop).
CollectTag(tm, cfg, linked, target_file, classified) ==
    IF ~linked.ok
    THEN FileDone(linked.fs, linked.error, "link", target_file,
                  classified.category)
    ELSE IF tm.enabled /\ cfg.auto_tag_categories
    THEN LET written == set_category(tm, cfg, linked.fs, target_file,
                                     classified.category,
                                     <<classified.confidence>>)
         IN  [FileDone(linked.fs, "none", "tag", target_file,
                       classified.category)
                 EXCEPT !.fs = written.fs, !.raised = written.raised]
    ELSE FileDone(linked.fs, "none", "tag", target_file, classified.category)

\* collect_downloads, the body of the loop once the file is moved and
\* classified: the link into INBOX/<category>.
CollectLink(tm, cfg, moved, classified) ==
    CollectTag(tm, cfg,
               create_category_symlink(
                   moved.fs, moved.result,
                   PathJoin(cfg.inbox_path, classified.category)),
               moved.result, classified)

\* collect_downloads, the body of the loop once move_file_to_all is through.
CollectMoved(tm, cfg, em, moved) ==
    IF ~moved.ok
    THEN FileDone(moved.fs, moved.error, "move", moved.result, <<>>)
    ELSE CollectLink(tm, cfg, moved,
                     FlowSort_classify_file(em, Basename(moved.result)))

\* collect_downloads, the body of the loop for one file: move, classify,
\* link, tag.
CollectFile(tm, cfg, em, f, file_path) ==
    CollectMoved(tm, cfg, em,
                 move_file_to_all(f, file_path, PathJoin(cfg.inbox_path, all_)))

\* The run of collect_downloads after one more file: the file system, the
\* count `collected`, what was done to each file so far, and the exception
\* that has left the loop.
CollectStep(run, file_path, done) ==
    [fs |-> done.fs,
     raised |-> done.raised,
     collected |-> IF done.raised = "none" THEN run.collected + 1
                   ELSE run.collected,
     files |-> Append(run.files,
                      [file_path |-> file_path,
                       target_file |-> done.target_file,
                       category |-> done.category,
                       stage |-> done.stage,
                       raised |-> done.raised])]

\* A loop that goes on with the next entry after a file has failed.
RECURSIVE CollectLoop_keeps_going(_, _, _, _, _)
CollectLoop_keeps_going(tm, cfg, em, run, entries) ==
    IF entries = <<>> THEN run
    ELSE IF ~IsFile(run.fs, Head(entries))
    THEN CollectLoop_keeps_going(tm, cfg, em, run, Tail(entries))
    ELSE CollectLoop_keeps_going(
             tm, cfg, em,
             CollectStep(run, Head(entries),
                         CollectFile(tm, cfg, em, run.fs, Head(entries))),
             Tail(entries))

\* collect_downloads, the loop over the entries iterdir yields, in the order
\* it yields them; is_file() is asked when the entry is visited.
RECURSIVE CollectLoop(_, _, _, _, _)
CollectLoop(tm, cfg, em, run, entries) ==
    IF entries = <<>> \/ run.raised # "none" THEN run
    ELSE IF ~IsFile(run.fs, Head(entries))
    THEN CollectLoop(tm, cfg, em, run, Tail(entries))
    ELSE CollectLoop(tm, cfg, em,
                     CollectStep(run, Head(entries),
                                 CollectFile(tm, cfg, em, run.fs, Head(entries))),
                     Tail(entries))

\* FlowSort.collect_downloads; entries is what iterdir yields.
collect_downloads(tm, cfg, em, f, entries) ==
    IF cfg.inbox_path = NonePath
    THEN [fs |-> f, raised |-> "ValueError", collected |-> 0, files |-> <<>>]
    ELSE IF ~Exists(f, cfg.downloads_path)
    THEN [fs |-> f, raised |-> "none", collected |-> 0, files |-> <<>>]
    ELSE CollectLoop(tm, cfg, em,
                     [fs |-> f, raised |-> "none", collected |-> 0,
                      files |-> <<>>],
                     entries)

\* len(list(directory.iterdir()))
CountEntries(f, directory) ==
    Cardinality(Children(f, RealPath(f, directory).path))

\* FlowSort.get_file_stats: stats["total_files"] stays 0 without
\* directory/all, and stats["categories"] holds a key for the categories
\* whose directory exists; iterdir raises on what is no directory.
get_file_stats(f, cfg, directory) ==
    LET all_dir == PathJoin(directory, all_)
        listed == {PathJoin(directory, c) :
                      c \in {d \in ConfigCategories(cfg) :
                                Exists(f, PathJoin(directory, d))}}
                    \cup (IF Exists(f, all_dir) THEN {all_dir} ELSE {})
    IN  IF \E d \in listed : ~IsDir(f, d)
        THEN [raised |-> "NotADirectoryError"]
        ELSE [raised |-> "none",
              total_files |-> IF Exists(f, all_dir) THEN CountEntries(f, all_dir)
                              ELSE 0,
              categories |->
                  [c \in {d \in ConfigCategories(cfg) :
                             Exists(f, PathJoin(directory, d))} |->
                      CountEntries(f, PathJoin(directory, c))]]

(***************************************************************************)
(* The organizer's specifications.  Files arrive in the downloads          *)
(* directory (each with its own content, the number of its arrival); the   *)
(* operations of FlowSort are called on the layout; the user deletes or    *)
(* edits files of INBOX/all, drops a file into a category directory or     *)
(* removes an empty directory of the layout.                               *)
(*   Spec        moves into INBOX/all;                                     *)
(*   SpecLink    the symlink fan-out and the sweep;                        *)
(*   SpecLayout  the creation of the layout.                               *)
(***************************************************************************)
MaxDownloads == 3
MaxLinkedFiles == 2
MaxStray == 1
MaxLayoutFiles == 1
MaxMissing == 2

DownloadNames ==
    {<<"t", ".", "t", "x", "t">>, <<"t", "_", "1", ".", "t", "x", "t">>, <<"n">>}

\* The names the links that arrive point to.
LinkTargets ==
    {<<"n">>}

LinkedNames ==
    {<<"t", ".", "t", "x", "t">>}

\* Permission bits of the n-th file that arrives.
ModeOf(n) == IF n % 2 = 1 THEN "rw-r--r--" ELSE "rw-------"

\* Content of a file the user has edited.
Edited(content) == 0 - content

\* What the user drops into a category directory under a name: a regular
\* file of their own (content 0, no arrival of the downloads directory has
\* it), or a relative symbolic link to the file of that name in the
\* downloads directory, which resolves as long as that file waits there.
StrayEntries(cfg, path) ==
    {FileEntry(Edited(0), ModeOf(1)),
     LinkEntry(RelPath(Append(cfg.downloads_path, Basename(path)), Parent(path)))}

NoCall == [op |-> "none"]

\* No collect_downloads call is under way in another process.
NoCollectors == <<>>

InboxAll == PathJoin(config.inbox_path, all_)

\* The category directories of INBOX that setup_directories creates.
CategoryDirs(cfg) ==
    {PathJoin(cfg.inbox_path, c) : c \in ConfigCategories(cfg) \cup {misc}}

\* The state after FlowSort(config): the downloads directory exists and the
\* constructor has called setup_directories.
Init ==
    /\ config \in OrganizerConfigs
    /\ tag_manager = XattrTagManager(config, TRUE)
    /\ refused = {}
    /\ writes = 0
    /\ collectors = NoCollectors
    /\ extension_map = BuildExtensionMap(config)
    /\ subject = <<>>
    /\ created = 0
    /\ returned = <<>>
    /\ fs = setup_directories(
                [q \in {<<>>, config.downloads_path} |-> DirEntry], config).fs
    /\ last = NoCall

\* A file arrives in the downloads directory (at most `limit` ever do).
Download(name, limit) ==
    /\ created < limit
    /\ IsDir(fs, config.downloads_path)
    /\ Append(config.downloads_path, name) \notin DOMAIN fs
    /\ created' = created + 1
    /\ fs' = Put(fs, Append(config.downloads_path, name),
                 FileEntry(created + 1, ModeOf(created + 1)))
    /\ last' = [op |-> "download"]
    /\ UNCHANGED <<tag_manager, refused, writes, config, extension_map, collectors, subject, returned>>

\* A symbolic link to a file beside it arrives in the downloads directory
\* (a relative link, as an unpacked archive leaves them).
DownloadLink(name, target, limit) ==
    /\ created < limit
    /\ name # target
    /\ IsDir(fs, config.downloads_path)
    /\ Append(config.downloads_path, name) \notin DOMAIN fs
    /\ created' = created + 1
    /\ fs' = Put(fs, Append(config.downloads_path, name), LinkEntry(<<target>>))
    /\ last' = [op |-> "download_link"]
    /\ UNCHANGED <<tag_manager, refused, writes, config, extension_map, collectors, subject, returned>>

\* move_file_to_all(source, INBOX/all) on an entry of the downloads directory
\* that is a file as collect_downloads tests it (file_path.is_file()).
MoveFileToAll(source_path) ==
    LET r == move_file_to_all(fs, source_path, InboxAll)
    IN  /\ IsFile(fs, source_path)
        /\ fs' = r.fs
        /\ last' = [op |-> "move_file_to_all", source_path |-> source_path,
                    target_all_path |-> InboxAll, ok |-> r.ok,
                    result |-> r.result]
        /\ returned' =
               IF r.ok /\ fs[source_path].kind = "file"
               THEN [c \in (DOMAIN returned) \cup {fs[source_path].content} |->
                        IF c = fs[source_path].content THEN r.result
                        ELSE returned[c]]
               ELSE returned
        /\ UNCHANGED <<tag_manager, refused, writes, config, extension_map, collectors, subject, created>>

\* create_category_symlink(real_file, category_dir) on a file of INBOX/all.
CreateCategorySymlink(real_file, category_dir) ==
    LET r == create_category_symlink(fs, real_file, category_dir)
    IN  /\ fs' = r.fs
        /\ last' = [op |-> "create_category_symlink", real_file |-> real_file,
                    category_dir |-> category_dir, ok |-> r.ok,
                    before |-> LET symlink_path ==
                                       PathJoin(category_dir, Basename(real_file))
                               IN  IF symlink_path \in DOMAIN fs
                                   THEN [fs[symlink_path] EXCEPT
                                            !.kind = IF Exists(fs, symlink_path)
                                                     THEN @ ELSE "broken link"]
                                   ELSE [kind |-> "none"]]
        /\ UNCHANGED <<tag_manager, refused, writes, config, extension_map, collectors, subject, created, returned>>

\* cleanup_broken_symlinks(directory)
CleanupBrokenSymlinks(directory) ==
    /\ fs' = cleanup_broken_symlinks(fs, directory)
    /\ last' = [op |-> "cleanup_broken_symlinks", directory |-> directory,
                removed |-> (DOMAIN fs) \ DOMAIN fs']
    /\ UNCHANGED <<tag_manager, refused, writes, config, extension_map, collectors, subject, created, returned>>

\* A new FlowSort(config): the constructor calls setup_directories.
SetupDirectories ==
    LET r == setup_directories(fs, config)
    IN  /\ fs' = r.fs
        /\ last' = [op |-> "setup_directories", ok |-> r.ok, error |-> r.error,
                    created |-> (DOMAIN r.fs) \ DOMAIN fs]
        /\ UNCHANGED <<tag_manager, refused, writes, config, extension_map, collectors, subject, created, returned>>

\* The user deletes a file of INBOX/all.
ExternalDelete(path) ==
    /\ fs' = Remove(fs, path)
    /\ last' = [op |-> "external_delete", path |-> path]
    /\ returned' = [c \in {d \in DOMAIN returned : returned[d] # path} |->
                        returned[c]]
    /\ UNCHANGED <<tag_manager, refused, writes, config, extension_map, collectors, subject, created>>

\* The user edits a file of INBOX/all.
ExternalModify(path) ==
    /\ fs[path].content > 0
    /\ fs' = Put(fs, path, [fs[path] EXCEPT !.content = Edited(@)])
    /\ last' = [op |-> "external_modify", path |-> path]
    /\ UNCHANGED <<tag_manager, refused, writes, config, extension_map, collectors, subject, created, returned>>

\* The user drops a file or a symbolic link into a category directory.
ExternalCreate(path, entry) ==
    /\ Cardinality({q \in DOMAIN fs :
                        q # <<>> /\ fs[q] \in StrayEntries(config, q)})
           < MaxStray
    /\ IsDir(fs, Parent(path))
    /\ path \notin DOMAIN fs
    /\ fs' = Put(fs, path, entry)
    /\ last' = [op |-> "external_create", path |-> path]
    /\ UNCHANGED <<tag_manager, refused, writes, config, extension_map, collectors, subject, created, returned>>

\* The user removes an empty directory of the layout.
ExternalRmdir(path) ==
    /\ path \in DOMAIN fs
    /\ fs[path].kind = "dir"
    /\ Children(fs, path) = {}
    /\ Cardinality({i \in DOMAIN Directories(config) :
                       ~IsDir(fs, Directories(config)[i])}) < MaxMissing
    /\ fs' = Remove(fs, path)
    /\ last' = [op |-> "external_rmdir", path |-> path]
    /\ UNCHANGED <<tag_manager, refused, writes, config, extension_map, collectors, subject, created, returned>>

Next ==
    \/ \E name \in DownloadNames : Download(name, MaxDownloads)
    \/ \E name \in DownloadNames : \E target \in LinkTargets :
           DownloadLink(name, target, MaxDownloads)
    \/ \E source_path \in Children(fs, config.downloads_path) :
           MoveFileToAll(source_path)
    \/ \E path \in Children(fs, InboxAll) : ExternalDelete(path)

Spec == Init /\ [][Next]_vars

NextLink ==
    \/ \E name \in LinkedNames : Download(name, MaxLinkedFiles)
    \/ \E source_path \in Children(fs, config.downloads_path) :
           MoveFileToAll(source_path)
    \/ \E real_file \in Children(fs, InboxAll) :
           \E category_dir \in CategoryDirs(config) :
               CreateCategorySymlink(real_file, category_dir)
    \/ \E directory \in {config.inbox_path, config.documents_path} :
           CleanupBrokenSymlinks(directory)
    \/ \E path \in Children(fs, InboxAll) : ExternalDelete(path)
    \/ \E path \in Children(fs, InboxAll) : ExternalModify(path)
    \/ \E category_dir \in CategoryDirs(config) : \E name \in LinkedNames :
           \E entry \in StrayEntries(config, Append(category_dir, name)) :
               ExternalCreate(Append(category_dir, name), entry)

SpecLink == Init /\ [][NextLink]_vars

NextLayout ==
    \/ \E name \in LinkedNames : Download(name, MaxLayoutFiles)
    \/ \E source_path \in Children(fs, config.downloads_path) :
           MoveFileToAll(source_path)
    \/ \E real_file \in Children(fs, InboxAll) :
           \E category_dir \in CategoryDirs(config) :
               CreateCategorySymlink(real_file, category_dir)
    \/ \E i \in DOMAIN Directories(config) :
           ExternalRmdir(Directories(config)[i])
    \/ SetupDirectories

SpecLayout == Init /\ [][NextLayout]_vars

(***************************************************************************)
(* The collector's specification: files, a symbolic link and a directory   *)
(* arrive in the downloads directory (which may not exist);                *)
(* collect_downloads, cleanup_broken_symlinks and get_file_stats are       *)
(* called; the user deletes files of INBOX/all and removes empty           *)
(* directories of INBOX.                                                   *)
(***************************************************************************)
MaxCollectFiles == 3

report_pdf == <<"r", "e", "p", "o", "r", "t", ".", "p", "d", "f">>
photo_jpg == <<"p", "h", "o", "t", "o", ".", "j", "p", "g">>
unknown_xyz == <<"u", "n", "k", "n", "o", "w", "n", ".", "x", "y", "z">>
latest_pdf == <<"l", "a", "t", "e", "s", "t", ".", "p", "d", "f">>
subdirectory == <<"s", "u", "b", "d", "i", "r", "e", "c", "t", "o", "r", "y">>

CollectNames == {report_pdf, photo_jpg, unknown_xyz}

\* The link that arrives: latest.pdf -> subdirectory/report.pdf.
CollectLinkNames == {latest_pdf}
CollectLinkTargets == {<<subdirectory, report_pdf>>}

CollectConfigs == {MakeConfig(DefaultCategories)}

\* The directories of INBOX the user removes.
RemovedDirs(cfg) == {PathJoin(cfg.inbox_path, all_), PathJoin(cfg.inbox_path, images)}

\* The directories get_file_stats is called on (the status command).
StatsDirs(cfg) == {cfg.inbox_path, cfg.documents_path, cfg.archive_path}

\* Every order in which iterdir can yield the entries of a set.
Orders(S) ==
    {s \in [1..Cardinality(S) -> S] :
        \A i, j \in DOMAIN s : s[i] = s[j] => i = j}

\* The state after FlowSort(config), with or without a downloads directory.
InitCollect ==
    /\ config \in CollectConfigs
    /\ tag_manager = XattrTagManager(config, TRUE)
    /\ refused = {}
    /\ writes = 0
    /\ collectors = NoCollectors
    /\ extension_map = BuildExtensionMap(config)
    /\ subject = <<>>
    /\ created = 0
    /\ returned = <<>>
    /\ \E present \in SUBSET {config.downloads_path} :
           fs = setup_directories([q \in {<<>>} \cup present |-> DirEntry],
                                  config).fs
    /\ last = NoCall

\* A directory with a file in it arrives in the downloads directory.
DownloadDir(name, inner, limit) ==
    /\ created < limit
    /\ IsDir(fs, config.downloads_path)
    /\ Append(config.downloads_path, name) \notin DOMAIN fs
    /\ created' = created + 1
    /\ fs' = Put(Put(fs, Append(config.downloads_path, name), DirEntry),
                 Append(Append(config.downloads_path, name), inner),
                 FileEntry(created + 1, ModeOf(created + 1)))
    /\ last' = [op |-> "download_dir"]
    /\ UNCHANGED <<tag_manager, refused, writes, config, extension_map, collectors, subject, returned>>

\* A symbolic link to a file below the downloads directory arrives in it.
DownloadLinkTo(name, target, limit) ==
    /\ created < limit
    /\ IsDir(fs, config.downloads_path)
    /\ Append(config.downloads_path, name) \notin DOMAIN fs
    /\ created' = created + 1
    /\ fs' = Put(fs, Append(config.downloads_path, name), LinkEntry(target))
    /\ last' = [op |-> "download_link"]
    /\ UNCHANGED <<tag_manager, refused, writes, config, extension_map, collectors, subject, returned>>

\* collect_downloads(), iterdir yielding the entries in some order.
CollectDownloads(entries) ==
    LET r == collect_downloads(tag_manager, config, extension_map, fs, entries)
    IN  /\ fs' = r.fs
        /\ last' = [op |-> "collect_downloads", collected |-> r.collected,
                    raised |-> r.raised, files |-> r.files]
        /\ UNCHANGED <<tag_manager, refused, writes, config, extension_map, collectors, subject, created, returned>>

\* get_file_stats(directory)
GetFileStats(directory) ==
    /\ last' = [op |-> "get_file_stats", directory |-> directory,
                stats |-> get_file_stats(fs, config, directory)]
    /\ UNCHANGED <<tag_manager, refused, writes, config, extension_map, collectors, fs, subject, created, returned>>

NextCollect ==
    \/ \E name \in CollectNames : Download(name, MaxCollectFiles)
    \/ \E name \in CollectLinkNames : \E target \in CollectLinkTargets :
           DownloadLinkTo(name, target, MaxCollectFiles)
    \/ DownloadDir(subdirectory, report_pdf, MaxCollectFiles)
    \/ \E entries \in Orders(Children(fs, config.downloads_path)) :
           CollectDownloads(entries)
    \/ CleanupBrokenSymlinks(config.inbox_path)
    \/ \E directory \in StatsDirs(config) : GetFileStats(directory)
    \/ \E path \in Children(fs, InboxAll) : ExternalDelete(path)
    \/ \E path \in RemovedDirs(config) : ExternalRmdir(path)

SpecCollect == InitCollect /\ [][NextCollect]_vars

(***************************************************************************)
(* The specification of configurations with missing roots: any of           *)
(* inbox_path, documents_path, archive_path and system_path is None (the     *)
(* tests set config.inbox_path = None); the user makes directories of the    *)
(* base directory by hand; FlowSort(config) is constructed.                  *)
(***************************************************************************)
RootFields == {"inbox_path", "documents_path", "archive_path", "system_path"}

\* The default configuration with the roots of `missing` set to None.
WithoutRoots(missing) ==
    [field \in DOMAIN MakeConfig(DefaultCategories) |->
        IF field \in missing THEN NonePath
        ELSE MakeConfig(DefaultCategories)[field]]

RootConfigs == {WithoutRoots(missing) : missing \in SUBSET RootFields}

MissingRoot(cfg) == \E field \in RootFields : cfg[field] = NonePath

\* The directories the user makes by hand.
HandMade ==
    {PathJoin(MakeConfig(DefaultCategories).inbox_path, all_),
     PathJoin(MakeConfig(DefaultCategories).documents_path, all_),
     MakeConfig(DefaultCategories).system_path}

\* Before FlowSort(config): an empty base directory.
InitConfig ==
    /\ config \in RootConfigs
    /\ tag_manager = XattrTagManager(config, TRUE)
    /\ refused = {}
    /\ writes = 0
    /\ collectors = NoCollectors
    /\ extension_map = BuildExtensionMap(config)
    /\ subject = <<>>
    /\ created = 0
    /\ returned = <<>>
    /\ fs = [q \in {<<>>} |-> DirEntry]
    /\ last = NoCall

\* The user makes a directory: path.mkdir(parents=True, exist_ok=True).
ExternalMkdir(path) ==
    /\ ~Exists(fs, path)
    /\ fs' = Mkdir(fs, path).fs
    /\ last' = [op |-> "external_mkdir", path |-> path]
    /\ UNCHANGED <<tag_manager, refused, writes, config, extension_map, collectors, subject, created, returned>>

NextConfig ==
    \/ SetupDirectories
    \/ \E path \in HandMade : ExternalMkdir(path)

SpecConfig == InitConfig /\ [][NextConfig]_vars

(***************************************************************************)
(* The concurrent specification: collect_downloads runs in several         *)
(* processes at once on one layout, each call a sequence of system calls   *)
(* (the listing of its downloads directory, is_file, each exists() of the  *)
(* collision loop, the rename of shutil.move, the test, the unlink and the *)
(* symlink of the link step, the attribute writes) that interleave with    *)
(* the other calls' ones.  The processes share base_path; their            *)
(* downloads_path is the same directory or two different ones.             *)
(***************************************************************************)
MaxCollectors == 2

Collectors == 1..MaxCollectors

second_downloads ==
    <<"s", "e", "c", "o", "n", "d", "_", "d", "o", "w", "n", "l", "o", "a", "d", "s">>

\* The downloads directories of the processes' configurations.
SourceDirs(cfg) == {cfg.downloads_path, <<second_downloads>>}

\* What waits in the downloads directories or lies in INBOX/all when the
\* calls begin, in the order of arrival: regular files and, last, in place
\* of the first file, a relative symbolic link t.txt -> subdirectory/n to a
\* file in a directory of the downloads directory.
RaceFiles(cfg) ==
    <<Append(cfg.downloads_path, <<"t", ".", "t", "x", "t">>),
      Append(cfg.downloads_path, <<"n">>),
      <<second_downloads, <<"t", ".", "t", "x", "t">>>>,
      Append(PathJoin(cfg.inbox_path, all_), <<"t", ".", "t", "x", "t">>),
      Append(cfg.downloads_path, <<"t", ".", "t", "x", "t">>)>>

RaceEntry(n) ==
    IF n = 5 THEN LinkEntry(<<subdirectory, <<"n">>>>)
    ELSE FileEntry(n, ModeOf(n))

\* The directory the link points into, and the file in it.
RaceLinked(cfg, present) ==
    IF 5 \in present
    THEN {Append(cfg.downloads_path, subdirectory),
          Append(Append(cfg.downloads_path, subdirectory), <<"n">>)}
    ELSE {}

\* The sets of arrivals that can be there together.
RaceArrivals(cfg) ==
    {present \in SUBSET (DOMAIN RaceFiles(cfg)) : ~({1, 5} \subseteq present)}

\* The layout with the files of numbers `present` in it.
RaceLayout(cfg, present) ==
    LET layout == setup_directories(
                      [q \in {<<>>} \cup SourceDirs(cfg) |-> DirEntry], cfg).fs
        files == {RaceFiles(cfg)[n] : n \in present}
    IN  [q \in (DOMAIN layout) \cup files \cup RaceLinked(cfg, present) |->
            IF q \in DOMAIN layout THEN layout[q]
            ELSE IF q \in files
            THEN RaceEntry(CHOOSE k \in present : RaceFiles(cfg)[k] = q)
            ELSE IF Basename(q) = subdirectory THEN DirEntry
            ELSE FileEntry(0, ModeOf(0))]

\* A collect_downloads call that has not begun: its position, its
\* downloads_path, the entries iterdir has still to yield, the locals
\* file_path, target_file, counter and collected, the exception that has
\* left the call, and its history: the files whose is_file() was true, the
\* renames it made, and whether another process has renamed since the
\* exists() that found target_file free.
NewCollector(downloads_path) ==
    [pc |-> "start",
     downloads_path |-> downloads_path,
     entries |-> <<>>,
     file_path |-> <<>>,
     target_file |-> <<>>,
     counter |-> 1,
     collected |-> 0,
     raised |-> "none",
     observed |-> {},
     moved |-> {},
     stale |-> FALSE]

InitConcurrent ==
    /\ config \in OrganizerConfigs
    /\ tag_manager = XattrTagManager(config, TRUE)
    /\ refused = {}
    /\ writes = 0
    /\ extension_map = BuildExtensionMap(config)
    /\ subject = <<>>
    /\ returned = <<>>
    /\ \E present \in RaceArrivals(config) :
           /\ fs = RaceLayout(config, present)
           /\ created = Cardinality(present)
    /\ \E others \in SourceDirs(config) :
           collectors = [p \in Collectors |->
                            NewCollector(IF p = 1 THEN config.downloads_path
                                         ELSE others)]
    /\ last = NoCall

\* collect_downloads up to the loop: the guards, then the listing iterdir
\* takes when the loop asks for its first entry.
CollectorStarted(c, cfg, f, entries) ==
    IF cfg.inbox_path = NonePath
    THEN [c EXCEPT !.pc = "failed", !.raised = "ValueError"]
    ELSE IF ~Exists(f, c.downloads_path)
    THEN [c EXCEPT !.pc = "done"]
    ELSE [c EXCEPT !.pc = "visit", !.entries = entries]

\* collect_downloads, the head of the loop: the next entry and its is_file().
CollectorVisited(c, cfg, f) ==
    IF c.entries = <<>> THEN [c EXCEPT !.pc = "done"]
    ELSE IF ~IsFile(f, Head(c.entries))
    THEN [c EXCEPT !.entries = Tail(@)]
    ELSE [c EXCEPT !.pc = "check",
                   !.file_path = Head(c.entries),
                   !.target_file = Append(PathJoin(cfg.inbox_path, all_),
                                          Basename(Head(c.entries))),
                   !.counter = 1,
                   !.stale = FALSE,
                   !.observed = @ \cup {Head(c.entries)}]

\* move_file_to_all, one test of the while loop: target_file.exists(), and
\* the next candidate when it does.
CollectorChecked(c, f) ==
    IF Exists(f, c.target_file)
    THEN [c EXCEPT !.target_file =
                       Append(Parent(c.target_file),
                              PathStem(Basename(c.file_path)) \o <<"_">>
                                  \o Decimal(c.counter)
                                  \o PathSuffix(Basename(c.file_path))),
                   !.counter = @ + 1]
    ELSE [c EXCEPT !.pc = "move"]

\* The content of the regular file at a physical path, if there is one.
ContentAt(f, path) ==
    IF path \in DOMAIN f /\ f[path].kind = "file" THEN <<f[path].content>>
    ELSE <<>>

\* The kind of the entry at a physical path, if there is one.
KindAt(f, path) == IF path \in DOMAIN f THEN f[path].kind ELSE "none"

\* move_file_to_all after shutil.move: the call goes on to the link, or the
\* exception of the move leaves it.
CollectorMoved(c, f, moved) ==
    IF moved.ok
    THEN [c EXCEPT !.pc = "link",
                   !.moved = @ \cup {[file_path |-> c.file_path,
                                      target_file |-> c.target_file,
                                      content |-> ContentAt(f, c.file_path),
                                      replaced |-> KindAt(f, c.target_file),
                                      replaced_content |->
                                          ContentAt(f, c.target_file),
                                      stale |-> c.stale]}]
    ELSE [c EXCEPT !.pc = "failed", !.raised = moved.error]

\* Another process's call when a rename into INBOX/all has been made: what
\* its exists() found is out of date if it stands before its own rename.
Overtaken(o, moved) ==
    IF moved.ok /\ o.pc = "move" THEN [o EXCEPT !.stale = TRUE] ELSE o

\* create_category_symlink: the path of the link for the call's target_file.
CollectorSymlinkPath(c, cfg, em) ==
    PathJoin(PathJoin(cfg.inbox_path,
                      FlowSort_classify_file(em, Basename(c.target_file)).category),
             Basename(c.target_file))

\* create_category_symlink, the test: exists() or is_symlink().
CollectorLinkTested(c, f, symlink_path) ==
    IF Exists(f, symlink_path) \/ IsSymlink(f, symlink_path)
    THEN [c EXCEPT !.pc = "unlink"]
    ELSE [c EXCEPT !.pc = "symlink"]

\* The call after a system call of the link step: on, or left by its error.
CollectorAfter(c, done, pc) ==
    IF done.ok THEN [c EXCEPT !.pc = pc]
    ELSE [c EXCEPT !.pc = "failed", !.raised = done.error]

\* collect_downloads, the end of the loop's body: collected += 1 unless the
\* tag raised.
CollectorTagged(c, done) ==
    IF done.raised = "none"
    THEN [c EXCEPT !.pc = "visit", !.entries = Tail(@),
                   !.collected = @ + 1]
    ELSE [c EXCEPT !.pc = "failed", !.raised = done.raised]

CollectorStart(p) ==
    /\ collectors[p].pc = "start"
    /\ \E entries \in Orders(Children(fs, collectors[p].downloads_path)) :
           collectors' = [collectors EXCEPT
                             ![p] = CollectorStarted(@, config, fs, entries)]
    /\ UNCHANGED <<tag_manager, refused, writes, config, extension_map, fs,
                   subject, created, returned, last>>

CollectorVisit(p) ==
    /\ collectors[p].pc = "visit"
    /\ collectors' = [collectors EXCEPT ![p] = CollectorVisited(@, config, fs)]
    /\ UNCHANGED <<tag_manager, refused, writes, config, extension_map, fs,
                   subject, created, returned, last>>

CollectorCheck(p) ==
    /\ collectors[p].pc = "check"
    /\ collectors' = [collectors EXCEPT ![p] = CollectorChecked(@, fs)]
    /\ UNCHANGED <<tag_manager, refused, writes, config, extension_map, fs,
                   subject, created, returned, last>>

CollectorMove(p) ==
    LET moved == ShutilMove(fs, collectors[p].file_path,
                            collectors[p].target_file)
    IN  /\ collectors[p].pc = "move"
        /\ fs' = moved.fs
        /\ collectors' = [o \in Collectors |->
                             IF o = p THEN CollectorMoved(collectors[p], fs, moved)
                             ELSE Overtaken(collectors[o], moved)]
        /\ UNCHANGED <<tag_manager, refused, writes, config, extension_map,
                       subject, created, returned, last>>

CollectorLinkTest(p) ==
    /\ collectors[p].pc = "link"
    /\ collectors' =
           [collectors EXCEPT
               ![p] = CollectorLinkTested(
                          @, fs, CollectorSymlinkPath(@, config, extension_map))]
    /\ UNCHANGED <<tag_manager, refused, writes, config, extension_map, fs,
                   subject, created, returned, last>>

CollectorUnlink(p) ==
    LET done == Unlink(fs, CollectorSymlinkPath(collectors[p], config,
                                                extension_map))
    IN  /\ collectors[p].pc = "unlink"
        /\ fs' = done.fs
        /\ collectors' = [collectors EXCEPT
                             ![p] = CollectorAfter(@, done, "symlink")]
        /\ UNCHANGED <<tag_manager, refused, writes, config, extension_map,
                       subject, created, returned, last>>

CollectorSymlink(p) ==
    LET symlink_path == CollectorSymlinkPath(collectors[p], config,
                                             extension_map)
        done == Symlink(fs, RelPath(collectors[p].target_file,
                                    Parent(symlink_path)),
                        symlink_path)
    IN  /\ collectors[p].pc = "symlink"
        /\ fs' = done.fs
        /\ collectors' = [collectors EXCEPT
                             ![p] = CollectorAfter(@, done, "tag")]
        /\ UNCHANGED <<tag_manager, refused, writes, config, extension_map,
                       subject, created, returned, last>>

\* The tag of the file just linked: set_category writes the same values
\* for one name whichever process calls it, so its writes are one step.
CollectorTag(p) ==
    LET done == CollectTag(tag_manager, config,
                           [ok |-> TRUE, fs |-> fs, error |-> "none"],
                           collectors[p].target_file,
                           FlowSort_classify_file(
                               extension_map,
                               Basename(collectors[p].target_file)))
    IN  /\ collectors[p].pc = "tag"
        /\ fs' = done.fs
        /\ collectors' = [collectors EXCEPT ![p] = CollectorTagged(@, done)]
        /\ UNCHANGED <<tag_manager, refused, writes, config, extension_map,
                       subject, created, returned, last>>

NextConcurrent ==
    \/ \E p \in Collectors : CollectorStart(p)
    \/ \E p \in Collectors : CollectorVisit(p)
    \/ \E p \in Collectors : CollectorCheck(p)
    \/ \E p \in Collectors : CollectorMove(p)
    \/ \E p \in Collectors : CollectorLinkTest(p)
    \/ \E p \in Collectors : CollectorUnlink(p)
    \/ \E p \in Collectors : CollectorSymlink(p)
    \/ \E p \in Collectors : CollectorTag(p)

SpecConcurrent == InitConcurrent /\ [][NextConcurrent]_vars

\* No other call is under way: each is still to begin or has returned.
Alone(p) ==
    \A o \in Collectors \ {p} :
        collectors[o].pc \in {"start", "done", "failed"}

\* The same calls made one after the other.
NextSequential ==
    \/ \E p \in Collectors : Alone(p) /\ CollectorStart(p)
    \/ \E p \in Collectors : Alone(p) /\ CollectorVisit(p)
    \/ \E p \in Collectors : Alone(p) /\ CollectorCheck(p)
    \/ \E p \in Collectors : Alone(p) /\ CollectorMove(p)
    \/ \E p \in Collectors : Alone(p) /\ CollectorLinkTest(p)
    \/ \E p \in Collectors : Alone(p) /\ CollectorUnlink(p)
    \/ \E p \in Collectors : Alone(p) /\ CollectorSymlink(p)
    \/ \E p \in Collectors : Alone(p) /\ CollectorTag(p)

SpecSequential == InitConcurrent /\ [][NextSequential]_vars

(***************************************************************************)
(* The classifier's specification: a configuration is loaded, then files   *)
(* are classified and confidences queried.                                 *)
(***************************************************************************)
InitClassify ==
    /\ config \in ClassifyConfigs
    /\ tag_manager = XattrTagManager(config, TRUE)
    /\ refused = {}
    /\ writes = 0
    /\ collectors = NoCollectors
    /\ extension_map = BuildExtensionMap(config)
    /\ subject \in ClassifyNames
    /\ created = 0
    /\ returned = <<>>
    /\ fs = [q \in {<<>>} |-> DirEntry]
    /\ last = NoCall

ClassifyFile ==
    /\ last' = [op |-> "classify_file", name |-> subject,
                result |-> FlowSort_classify_file(extension_map, subject)]
    /\ UNCHANGED <<tag_manager, refused, writes, config, extension_map, collectors, fs, subject, created, returned>>

GetConfidence(category) ==
    /\ last' = [op |-> "get_confidence", name |-> subject,
                category |-> category,
                result |-> Heuristic_get_confidence(extension_map, subject, category)]
    /\ UNCHANGED <<tag_manager, refused, writes, config, extension_map, collectors, fs, subject, created, returned>>

NextClassify ==
    \/ ClassifyFile
    \/ \E category \in QueriedCategories(config) : GetConfidence(category)

SpecClassify == InitClassify /\ [][NextClassify]_vars

(***************************************************************************)
(* The Tag Store's specification.  A tag manager is built from a           *)
(* configuration and the outcome of its probe; its operations are called   *)
(* on two files, on a file without permissions and on a missing path;      *)
(* another tool writes the shared user.xdg.tags list or leaves a value     *)
(* that is no number in the confidence attribute.                          *)
(***************************************************************************)
TagConfigs ==
    LET default == MakeConfig(SmallCategories)
    IN  {default,
         [default EXCEPT !.enable_tagging = FALSE],
         [default EXCEPT !.xdg_tags_compatibility = FALSE],
         [default EXCEPT !.prefer_xdg_tags = FALSE],
         [default EXCEPT !.preserve_existing_tags = FALSE],
         [default EXCEPT !.auto_tag_categories = FALSE]}

\* What the file system may refuse to store.
Refusals == {{}, {xdg_tags_attr}, {tags_attr}}

tagged == <<<<"t", "a", "g", "g", "e", "d">>>>
copy_dest == <<<<"c", "o", "p", "y">>>>
locked == <<<<"l", "o", "c", "k", "e", "d">>>>
gone == <<<<"g", "o", "n", "e">>>>

TagPaths == {tagged, copy_dest, locked, gone}

\* The paths the modifying operations are called on.
WrittenPaths == {tagged, locked, gone}

\* Arguments of the calls.
TagCategories == {documents}
TagConfidences == {<<>>, <<ExtensionConfidence>>}
TagLists == {<<<<"b">>>>, <<<<"b">>, <<"a">>>>, <<documents>>}

\* Values other tools leave in an attribute.
ForeignValues ==
    [a \in {xdg_tags_attr, confidence_attr} |->
        IF a = xdg_tags_attr
        THEN {<<"z", ",", " ", "a">>, <<InvalidByte>>}
        ELSE {<<"h", "i", "g", "h">>}]

MaxTagWrites == 3

InitTags ==
    /\ config \in TagConfigs
    /\ extension_map = BuildExtensionMap(config)
    /\ subject = <<>>
    /\ created = 0
    /\ returned = <<>>
    /\ \E probe \in BOOLEAN : tag_manager = XattrTagManager(config, probe)
    /\ refused \in Refusals
    /\ writes = 0
    /\ collectors = NoCollectors
    /\ fs = [q \in {<<>>, tagged, copy_dest, locked} |->
                IF q = <<>> THEN DirEntry
                ELSE IF q = locked THEN FileEntry(3, "---------")
                ELSE IF q = tagged THEN FileEntry(1, ModeOf(1))
                ELSE FileEntry(2, ModeOf(2))]
    /\ last = NoCall

\* The attributes of the file at a path (none where there is no file).
XattrsAt(f, file_path) ==
    IF file_path \in DOMAIN f /\ f[file_path].kind = "file"
    THEN f[file_path].xattrs ELSE NoXattrs

\* The arguments of a call that takes the path only.
NoArgs == [path_only |-> TRUE]

\* One call of a Tag Store operation: the file system it leaves, and the
\* record of the call.
TagCall(op, file_path, args, r) ==
    /\ fs' = r.fs
    /\ last' = [op |-> op, file_path |-> file_path, args |-> args,
                before |-> XattrsAt(fs, file_path),
                result |-> r.result, raised |-> r.raised]
    /\ UNCHANGED <<tag_manager, refused, config, extension_map, collectors, subject,
                   created, returned>>

\* A call of an operation that reads.
TagRead(op, file_path, r) ==
    /\ TagCall(op, file_path, NoArgs, r)
    /\ UNCHANGED writes

\* A call of an operation that modifies (at most MaxTagWrites are made).
TagWrite(op, file_path, args, r) ==
    /\ writes < MaxTagWrites
    /\ writes' = writes + 1
    /\ TagCall(op, file_path, args, r)

SetCategory(file_path, category, confidence) ==
    TagWrite("set_category", file_path,
             [category |-> category, confidence |-> confidence],
             set_category(tag_manager, config, fs, file_path, category, confidence))

GetCategory(file_path) ==
    TagRead("get_category", file_path, get_category(tag_manager, fs, file_path))

TagGetConfidence(file_path) ==
    TagRead("get_confidence", file_path,
            Tag_get_confidence(tag_manager, fs, file_path))

AddTags(file_path, tags) ==
    TagWrite("add_tags", file_path, [tags |-> tags],
             add_tags(tag_manager, config, fs, file_path, tags))

GetTags(file_path) ==
    TagRead("get_tags", file_path, get_tags(tag_manager, config, fs, file_path))

RemoveTags(file_path, tags) ==
    TagWrite("remove_tags", file_path, [tags |-> tags],
             remove_tags(tag_manager, config, fs, file_path, tags))

ClearAllTags(file_path) ==
    TagWrite("clear_all_tags", file_path, NoArgs,
             clear_all_tags(tag_manager, config, fs, file_path))

CopyTags(source_path, dest_path) ==
    TagWrite("copy_tags", dest_path, [source_path |-> source_path],
             copy_tags(tag_manager, config, fs, source_path, dest_path))

\* Another tool writes an attribute of a file.
ForeignWrite(file_path, attr, value) ==
    /\ writes < MaxTagWrites
    /\ writes' = writes + 1
    /\ fs' = [fs EXCEPT ![file_path].xattrs =
                [a \in (DOMAIN @) \cup {attr} |-> IF a = attr THEN value ELSE @[a]]]
    /\ last' = [op |-> "foreign_write", file_path |-> file_path]
    /\ UNCHANGED <<tag_manager, refused, config, extension_map, collectors, subject,
                   created, returned>>

NextTags ==
    \/ \E file_path \in WrittenPaths : \E category \in TagCategories :
           \E confidence \in TagConfidences :
               SetCategory(file_path, category, confidence)
    \/ \E file_path \in TagPaths : GetCategory(file_path)
    \/ \E file_path \in TagPaths : TagGetConfidence(file_path)
    \/ \E file_path \in WrittenPaths : \E tags \in TagLists :
           AddTags(file_path, tags)
    \/ \E file_path \in TagPaths : GetTags(file_path)
    \/ \E file_path \in WrittenPaths : \E tags \in TagLists :
           RemoveTags(file_path, tags)
    \/ \E file_path \in WrittenPaths : ClearAllTags(file_path)
    \/ CopyTags(tagged, copy_dest)
    \/ \E attr \in DOMAIN ForeignValues : \E value \in ForeignValues[attr] :
           ForeignWrite(tagged, attr, value)

SpecTags == InitTags /\ [][NextTags]_vars

(***************************************************************************)
(* Claims about the classifier (checked under SpecClassify).               *)
(***************************************************************************)
\* The extension of the file name the last call was about, lower-cased.
LastSuffix == Lower(PathSuffix(last.name))

C2_ConfidenceByMethod ==
    /\ (last.op = "classify_file" /\ LastSuffix \notin DOMAIN extension_map)
           => last.result.confidence = 6
    /\ last.op = "get_confidence"
           => /\ last.result \in {6, 9}
              /\ last.result = 9
                     <=> /\ LastSuffix \in DOMAIN extension_map
                         /\ extension_map[LastSuffix] = last.category

\* C2, witness: get_confidence was asked about a registered extension with a
\* category other than the mapped one, and answered 0.6.
C2_Witness ==
    /\ last.op = "get_confidence"
    /\ LastSuffix \in DOMAIN extension_map
    /\ extension_map[LastSuffix] # last.category
    /\ last.result = 6

\* C3, as stated: classification is case-insensitive.  Any file name that
\* differs from the classified one only in letter case gets the same
\* (category, confidence), and the extension map holds lower-cased keys only,
\* one for every extension of the configuration.
C3_CaseInsensitive ==
    /\ \A k \in DOMAIN extension_map : Lower(k) = k
    /\ \A p \in ExtensionPlaces(config) :
           Lower(config.categories[p[1]].extensions[p[2]])
               \in DOMAIN extension_map
    /\ last.op = "classify_file"
           => \A other \in ClassifyNames :
                  Lower(other) = Lower(last.name)
                      => FlowSort_classify_file(extension_map, other)
                             = last.result

\* C4, as stated: the category classify_file returns is a key of the
\* configured category -> extensions mapping, or "misc".
C4_CategoryIsConfigured ==
    last.op = "classify_file"
        => last.result.category \in ConfigCategories(config) \cup {misc}

(***************************************************************************)
(* Claims about the move into all/ (checked under Spec).                   *)
(***************************************************************************)
\* C5: a successful move_file_to_all places the file under its original
\* basename when no entry of the target directory has that name; otherwise
\* under {stem}_{n}{suffix}, n the smallest integer >= 1 for which no entry
\* has that name.
C5_SmallestFreeName ==
    [][(last'.op = "move_file_to_all" /\ last'.ok) =>
        LET dir == last'.target_all_path
            name == Basename(last'.source_path)
            free(nm) == Append(dir, nm) \notin DOMAIN fs
            Numbered(nm, n) ==
                PathStem(nm) \o <<"_">> \o Decimal(n) \o PathSuffix(nm)
            most == Cardinality(Children(fs, dir)) + 1
        IN  /\ last'.result \in DOMAIN fs'
            /\ fs'[last'.result] = fs[last'.source_path]
            /\ IF free(name) THEN last'.result = Append(dir, name)
               ELSE \E n \in 1..most :
                        /\ last'.result = Append(dir, Numbered(name, n))
                        /\ free(Numbered(name, n))
                        /\ \A m \in 1..(n - 1) : ~free(Numbered(name, m))
    ]_vars

\* C6: move_file_to_all is a move that never overwrites.  After a successful
\* call the source path no longer exists, the returned path is a new entry
\* that holds the source's content and permission bits, and every entry that
\* was in the target directory keeps its name and content; hence the paths
\* returned for the files moved in (and not deleted since) are pairwise
\* distinct and each still holds its own source's content.
C6_MoveStep ==
    (last'.op = "move_file_to_all" /\ last'.ok) =>
        LET src == last'.source_path
            dir == last'.target_all_path
        IN  /\ src \notin DOMAIN fs'
            /\ ~Exists(fs', src)
            /\ last'.result \notin DOMAIN fs
            /\ Parent(last'.result) = dir
            /\ fs'[last'.result] = fs[src]
            /\ \A q \in Children(fs, dir) : q \in DOMAIN fs' /\ fs'[q] = fs[q]
            /\ Children(fs', dir) = Children(fs, dir) \cup {last'.result}

C6_Series ==
    /\ \A c, d \in DOMAIN returned : c # d => returned[c] # returned[d]
    /\ \A c \in DOMAIN returned :
           /\ returned[c] \in DOMAIN fs
           /\ fs[returned[c]] = FileEntry(c, ModeOf(c))

C6_MoveNeverOverwrites == [][C6_MoveStep]_vars /\ []C6_Series

(***************************************************************************)
(* Claims about the symlink fan-out and the sweep (checked under           *)
(* SpecLink).                                                              *)
(***************************************************************************)
\* The links of the category directories of INBOX that point at ../all/<name>
\* under their own name.
FanOutLinks ==
    {q \in UNION {Children(fs, d) : d \in CategoryDirs(config)} :
        /\ fs[q].kind = "link"
        /\ fs[q].target = <<DotDot, all_, Basename(q)>>}

\* C7: after create_category_symlink(real_file, category_dir), category_dir
\* holds a symbolic link named real_file's basename whose stored target is
\* the relative path ../all/<name>, and reading through the link yields
\* real_file's content, also after the real file is modified later.
C7_LinkStep ==
    (last'.op = "create_category_symlink" /\ last'.ok) =>
        LET real_file == last'.real_file
            link == Append(last'.category_dir, Basename(real_file))
        IN  /\ link \in DOMAIN fs'
            /\ fs'[link] = LinkEntry(<<DotDot, all_, Basename(real_file)>>)
            /\ RealPath(fs', link) = [ok |-> TRUE, path |-> real_file]
            /\ ReadFile(fs', link) = fs[real_file].content

C7_ReadsThrough ==
    \A q \in FanOutLinks :
        Append(InboxAll, Basename(q)) \in DOMAIN fs
            => /\ Exists(fs, q)
               /\ ReadFile(fs, q) = fs[Append(InboxAll, Basename(q))].content

C7_RelativeLinkRoundTrip == [][C7_LinkStep]_vars /\ []C7_ReadsThrough

\* C7, witness: the real file has just been edited and a link made by the
\* link step reads the edited content.
C7_Witness ==
    /\ last.op = "external_modify"
    /\ \E q \in FanOutLinks :
           /\ RealPath(fs, q) = [ok |-> TRUE, path |-> last.path]
           /\ ReadFile(fs, q) = fs[last.path].content
           /\ ReadFile(fs, q) < 0

\* C8: create_category_symlink clobbers.  Whatever file or symbolic link
\* (valid or broken) is in category_dir under real_file's basename, the call
\* succeeds, and afterwards the entry of that name is a symbolic link that
\* resolves to the real_file passed; no other entry of category_dir changes.
C8_Clobber ==
    [][last'.op = "create_category_symlink" =>
        LET real_file == last'.real_file
            category_dir == last'.category_dir
            symlink_path == Append(category_dir, Basename(real_file))
        IN  /\ last'.ok
            /\ symlink_path \in DOMAIN fs'
            /\ fs'[symlink_path].kind = "link"
            /\ RealPath(fs', symlink_path) = [ok |-> TRUE, path |-> real_file]
            /\ Children(fs', category_dir) =
                   Children(fs, category_dir) \cup {symlink_path}
            /\ \A q \in Children(fs, category_dir) \ {symlink_path} :
                   fs'[q] = fs[q]
    ]_vars

\* C8, witness: a broken link with another target was there and has been
\* replaced by a link to the real file.
C8_Witness ==
    /\ last.op = "create_category_symlink"
    /\ last.ok
    /\ last.before.kind = "broken link"
    /\ LET symlink_path == Append(last.category_dir, Basename(last.real_file))
       IN  /\ fs[symlink_path].kind = "link"
           /\ fs[symlink_path].target # last.before.target
           /\ RealPath(fs, symlink_path) = [ok |-> TRUE, path |-> last.real_file]

\* C9: cleanup_broken_symlinks(directory) deletes exactly the symbolic links
\* below directory, at any depth, that do not resolve; every other entry
\* (valid link, regular file, directory) is left as it was and the valid
\* links still resolve to the same file; afterwards no broken link is left
\* below directory.
C9_SweepExact ==
    [][last'.op = "cleanup_broken_symlinks" =>
        LET directory == last'.directory
            below == {q \in DOMAIN fs :
                         /\ Len(q) > Len(directory)
                         /\ SubSeq(q, 1, Len(directory)) = directory}
            broken == {q \in below : fs[q].kind = "link" /\ ~Exists(fs, q)}
        IN  /\ DOMAIN fs' = (DOMAIN fs) \ broken
            /\ \A q \in DOMAIN fs' : fs'[q] = fs[q]
            /\ \A q \in below \ broken :
                   fs[q].kind = "link" => RealPath(fs', q) = RealPath(fs, q)
            /\ \A q \in below \ broken :
                   fs[q].kind = "file" => ReadFile(fs', q) = ReadFile(fs, q)
            /\ \A q \in DOMAIN fs' :
                   (q \in below /\ fs'[q].kind = "link") => Exists(fs', q)
            /\ last'.removed = broken
    ]_vars

\* C9, witness: a sweep of INBOX has removed a broken link two levels down
\* and has left a valid link and the real file.
C9_Witness ==
    /\ last.op = "cleanup_broken_symlinks"
    /\ last.directory = config.inbox_path
    /\ \E q \in last.removed : Len(q) = Len(config.inbox_path) + 2
    /\ \E q \in FanOutLinks : Exists(fs, q) /\ ReadFile(fs, q) # 0
    /\ \E q \in Children(fs, InboxAll) : fs[q].kind = "file"

(***************************************************************************)
(* Claims about the layout (checked under SpecLayout).                     *)
(***************************************************************************)
\* The directories of the layout.
Layout ==
    LET roots == {config.inbox_path, config.documents_path}
        names == ConfigCategories(config) \cup {misc, all_}
    IN  {Append(r, n) : r \in roots, n \in names}
            \cup {Append(config.archive_path, n) : n \in {all_, by_date, by_type}}
            \cup {config.system_path}

\* C10: setup_directories is idempotent.  Called when all or some of the
\* directories of the layout exist, it raises no error, every directory of
\* the layout is there afterwards, every entry that existed (directories and
\* their contents) is unchanged, only missing directories of the layout are
\* created, and nothing at all changes when none is missing.
C10_SetupIdempotent ==
    [][last'.op = "setup_directories" =>
        /\ last'.ok
        /\ \A d \in Layout : d \in DOMAIN fs' /\ fs'[d] = DirEntry
        /\ \A q \in DOMAIN fs : q \in DOMAIN fs' /\ fs'[q] = fs[q]
        /\ (DOMAIN fs') \ (DOMAIN fs) = Layout \ DOMAIN fs
        /\ (Layout \subseteq DOMAIN fs) => fs' = fs
    ]_vars

\* C10, witness: a call that found some directories of the layout missing
\* and others there, with a real file and a link in them.
C10_Witness ==
    /\ last.op = "setup_directories"
    /\ last.ok
    /\ last.created # {}
    /\ \E q \in Children(fs, InboxAll) : fs[q].kind = "file"
    /\ \E d \in CategoryDirs(config) : \E q \in Children(fs, d) : fs[q].kind = "link"

(***************************************************************************)
(* Claims about the Tag Store.                                             *)
(***************************************************************************)
\* The operations that modify, and those that read.
TagModifiers ==
    {"set_category", "add_tags", "remove_tags", "clear_all_tags", "copy_tags"}

TagReaders == {"get_category", "get_confidence", "get_tags"}

\* C11: while the Tag Store is disabled (by the configuration or because the
\* probe failed), set_category, add_tags, remove_tags, clear_all_tags and
\* copy_tags return failure, get_category, get_confidence and get_tags
\* return absent, none of them raises and none writes an attribute: every
\* call, the repeated ones too, leaves the file system as it was.
C11_DisabledIsNoOp ==
    [][(~tag_manager.enabled /\ last'.op \in TagModifiers \cup TagReaders)
          => /\ last'.raised = "none"
             /\ fs' = fs
             /\ last'.op \in TagModifiers => last'.result = FALSE
             /\ last'.op \in TagReaders => last'.result = <<>>]_vars

\* A store whose probe failed under a configuration that enables tagging,
\* after MaxTagWrites modifying calls (another tool's write would have left
\* an attribute), the last one a refused set_category.
C11_Witness ==
    /\ config.enable_tagging
    /\ ~tag_manager.enabled
    /\ writes = MaxTagWrites
    /\ last.op = "set_category"
    /\ last.result = FALSE
    /\ \A q \in DOMAIN fs : fs[q].kind = "file" => fs[q].xattrs = NoXattrs

\* The attribute a read operation reads.
AttrRead(op) == IF op = "get_category" THEN category_attr ELSE confidence_attr

\* C15: get_category and get_confidence tell absence from failure: when the
\* read of the attribute fails for another reason than the attribute not
\* being set (permission denied, no such file), the call does not return
\* absent as if nothing had gone wrong.
C15_FailureIsNotAbsence ==
    [][(/\ tag_manager.enabled
        /\ last'.op \in {"get_category", "get_confidence"}
        /\ GetXattr(fs, last'.file_path, AttrRead(last'.op)).errno
               \in {"EACCES", "ENOENT"})
          => ~(last'.result = <<>> /\ last'.raised = "none")]_vars

(***************************************************************************)
(* Claims about the collector.                                             *)
(***************************************************************************)
\* The layout as FlowSort(config) creates it, beside a downloads directory.
FreshLayout ==
    setup_directories([q \in {<<>>, config.downloads_path} |-> DirEntry],
                      config).fs

\* The file system without what is inside the downloads directory.
OutsideDownloads(f) ==
    [q \in (DOMAIN f) \ Descendants(f, config.downloads_path) |-> f[q]]

\* INBOX/<category>/<name> is a symbolic link that resolves to INBOX/all/<name>.
LinkedInto(f, category, name) ==
    LET symlink_path == Append(PathJoin(config.inbox_path, category), name)
    IN  /\ IsSymlink(f, symlink_path)
        /\ RealPath(f, symlink_path).ok
        /\ RealPath(f, symlink_path).path = Append(InboxAll, name)

\* C12: end to end, collect_downloads over a downloads directory that holds
\* report.pdf, photo.jpg and unknown.xyz, into an empty layout, leaves
\* exactly 3 entries in INBOX/all, the links documents/report.pdf,
\* images/photo.jpg and misc/unknown.xyz resolving to the entries of all/,
\* and get_file_stats reports total_files 3 and the categories documents 1,
\* images 1, misc 1 and every other configured category 0.
C12_EndToEnd ==
    [][(/\ last'.op = "collect_downloads"
        /\ OutsideDownloads(fs) = FreshLayout
        /\ Children(fs, config.downloads_path)
               = {Append(config.downloads_path, name) : name \in CollectNames}
        /\ \A name \in CollectNames :
               fs[Append(config.downloads_path, name)].kind = "file")
          => /\ last'.raised = "none"
             /\ last'.collected = 3
             /\ Cardinality(Children(fs', InboxAll)) = 3
             /\ LinkedInto(fs', documents, report_pdf)
             /\ LinkedInto(fs', images, photo_jpg)
             /\ LinkedInto(fs', misc, unknown_xyz)
             /\ get_file_stats(fs', config, config.inbox_path)
                    = [raised |-> "none",
                       total_files |-> 3,
                       categories |->
                           [c \in ConfigCategories(config) \cup {misc} |->
                               IF c \in {documents, images, misc} THEN 1
                               ELSE 0]]]_vars

\* The direct entries of the downloads directory that are regular files.
RegularFiles(f) ==
    {q \in Children(f, config.downloads_path) : f[q].kind = "file"}

\* C13: collect_downloads processes exactly the direct entries of the
\* downloads directory that are regular files, each once: when no error is
\* raised it returns their number (0, and no error, when the directory is
\* empty or does not exist), leaves no regular file in the directory, adds
\* that many entries to INBOX/all, and touches no subdirectory of the
\* downloads directory nor anything inside one.
C13_CollectsRegularFiles ==
    [][last'.op = "collect_downloads"
          => /\ RegularFiles(fs) = {} => last'.raised = "none"
             /\ last'.raised = "none"
                   => /\ last'.collected = Cardinality(RegularFiles(fs))
                      /\ Len(last'.files) = Cardinality(RegularFiles(fs))
                      /\ {last'.files[i].file_path : i \in DOMAIN last'.files}
                             = RegularFiles(fs)
                      /\ RegularFiles(fs') = {}
                      /\ Cardinality(Children(fs', InboxAll))
                             = Cardinality(Children(fs, InboxAll))
                                   + Cardinality(RegularFiles(fs))
                      /\ \A d \in Children(fs, config.downloads_path) :
                             fs[d].kind = "dir"
                                 => \A q \in {d} \cup Descendants(fs, d) :
                                        q \in DOMAIN fs' /\ fs'[q] = fs[q]]_vars

\* C14: get_file_stats(directory) returns as total_files the number of
\* entries directly inside directory/all (0 when it is missing) and, for
\* every configured category c, an entry of the per-category counts that is
\* the number of entries directly inside directory/c, 0 when that directory
\* is missing or empty.
C14_StatsCountEntries ==
    (last.op = "get_file_stats")
        => /\ last.stats.raised = "none"
           /\ last.stats.total_files
                  = Cardinality(Children(fs, PathJoin(last.directory, all_)))
           /\ \A c \in ConfigCategories(config) :
                  /\ c \in DOMAIN last.stats.categories
                  /\ last.stats.categories[c]
                         = Cardinality(Children(fs, PathJoin(last.directory, c)))

\* The category link collect_downloads makes for a file it has processed.
CategoryLink(file) ==
    Append(PathJoin(config.inbox_path, file.category), Basename(file.target_file))

\* A file collect_downloads has processed is organized: the entry that was
\* in the downloads directory is in INBOX/all under the name chosen for it
\* and no longer in the downloads directory, and its category link points
\* to it.
Organized(before, after, file) ==
    /\ file.file_path \notin DOMAIN after
    /\ file.target_file \in DOMAIN after
    /\ Parent(file.target_file) = InboxAll
    /\ after[file.target_file].kind = before[file.file_path].kind
    /\ before[file.file_path].kind = "file"
           => after[file.target_file].content = before[file.file_path].content
    /\ IsSymlink(after, CategoryLink(file))
    /\ after[CategoryLink(file)].target
           = RelPath(file.target_file, Parent(CategoryLink(file)))
    /\ Exists(after, file.target_file)
           => RealPath(after, CategoryLink(file)).path
                  = RealPath(after, file.target_file).path

C20_LayoutInvariant ==
    /\ \A d \in CategoryDirs(config) : \A q \in Children(fs, d) :
           /\ fs[q].kind = "link"
           /\ fs[q].target = <<DotDot, all_, Basename(q)>>
           /\ Exists(fs, q) => IsFile(fs, q)
    /\ \A q \in Children(fs, InboxAll) : fs[q].kind = "file"

(***************************************************************************)
(* Claims about configurations.                                            *)
(***************************************************************************)
\* C16: with a configuration in which inbox_path, documents_path,
\* archive_path or system_path is missing, FlowSort(config), that is
\* setup_directories, raises ValueError, and it does so before it creates
\* any directory: the file system is left as it was.
C16_MissingRootCreatesNothing ==
    [][(last'.op = "setup_directories" /\ MissingRoot(config))
          => /\ ~last'.ok
             /\ last'.error = "ValueError"
             /\ last'.created = {}
             /\ fs' = fs]_vars

\* A refused construction for a configuration that has an inbox_path (and
\* lacks another root), on a base directory where INBOX/all is yet to make.
C16_Witness ==
    /\ last.op = "setup_directories"
    /\ last.error = "ValueError"
    /\ config.inbox_path # NonePath
    /\ config.archive_path = NonePath
    /\ ~Exists(fs, PathJoin(config.inbox_path, all_))
    /\ Exists(fs, MakeConfig(DefaultCategories).system_path)

(***************************************************************************)
(* Claims about concurrent collectors (checked under SpecConcurrent).      *)
(***************************************************************************)
\* The calls that have found is_file() true for a source file.
Observers(file_path) ==
    {p \in DOMAIN collectors : file_path \in collectors[p].observed}

\* The calls whose rename of a source file succeeded.
Movers(file_path) ==
    {p \in DOMAIN collectors :
        \E m \in collectors[p].moved : m.file_path = file_path}

\* The call is through with the move of a file it observed.
Through(p, file_path) ==
    \/ collectors[p].file_path # file_path
    \/ collectors[p].pc \notin {"check", "move"}

\* The call has been left by the exception of the move of the file.
FailedOn(p, file_path) ==
    /\ collectors[p].pc = "failed"
    /\ collectors[p].file_path = file_path
    /\ collectors[p].raised = "FileNotFoundError"

\* C18: when two collect_downloads calls run at once and both have seen the
\* same source file as a regular file, the file is moved by exactly one of
\* them; the other call is left by an I/O error (FileNotFoundError) that
\* reaches its caller, it never goes on as if it had moved the file.
C18_OneMovesOtherFails ==
    \A q \in UNION {collectors[p].observed : p \in DOMAIN collectors} :
        /\ Cardinality(Movers(q)) <= 1
        /\ \A p \in Observers(q) :
               Through(p, q) => p \in Movers(q) \/ FailedOn(p, q)
        /\ (\A p \in Observers(q) : Through(p, q)) =>
               Cardinality(Movers(q)) = 1

C18_Witness ==
    \E p, o \in DOMAIN collectors :
        \E q \in collectors[p].observed \cap collectors[o].observed :
            /\ p # o
            /\ p \in Movers(q)
            /\ FailedOn(o, q)

\* A rename of one call has replaced the file another call had moved to the
\* same target, and the content of that file is nowhere any more.
LostUpdate(p, o) ==
    \E m \in collectors[p].moved : \E k \in collectors[o].moved :
        /\ m.file_path # k.file_path
        /\ m.target_file = k.target_file
        /\ k.content # <<>>
        /\ m.replaced_content = k.content
        /\ \A path \in DOMAIN fs : ContentAt(fs, path) # k.content

\* C19: the collision check and the move of move_file_to_all are not one
\* atomic step: a move replaces a file of INBOX/all only when another
\* writer's move fell between its exists() and its own rename (a single
\* writer, one call after the other, never replaces one), and with two
\* concurrent writers that interleaving is reached: both choose the same
\* final path and the content of one file replaces the other's.
C19_ReplacesOnlyWhenInterleaved ==
    \A p \in DOMAIN collectors : \A m \in collectors[p].moved :
        m.replaced # "none" => m.stale

C19_Witness ==
    \E p, o \in DOMAIN collectors : p # o /\ LostUpdate(p, o)

(***************************************************************************)
(* More claims about the classifier (checked under SpecClassify).          *)
(***************************************************************************)
\* The MIME type is <major>/*.
MajorType(mime_type, major) == StartsWith(mime_type, major \o <<"/">>)

\* The rules of the MIME fallback, in their order: the first whose test the
\* MIME type passes gives the category.
FallbackRules(mime_type) ==
    <<[test |-> MajorType(mime_type, <<"t", "e", "x", "t">>),
       category |-> documents],
      [test |-> MajorType(mime_type, <<"i", "m", "a", "g", "e">>),
       category |-> images],
      [test |-> \/ MajorType(mime_type, <<"v", "i", "d", "e", "o">>)
                \/ MajorType(mime_type, <<"a", "u", "d", "i", "o">>),
       category |-> media],
      [test |-> /\ MajorType(mime_type, <<"a", "p", "p", "l", "i", "c", "a", "t", "i", "o", "n">>)
                /\ Contains(mime_type, <<"p", "d", "f">>),
       category |-> documents],
      [test |-> /\ MajorType(mime_type, <<"a", "p", "p", "l", "i", "c", "a", "t", "i", "o", "n">>)
                /\ \E x \in {<<"z", "i", "p">>, <<"t", "a", "r">>,
                             <<"c", "o", "m", "p", "r", "e", "s", "s", "e", "d">>} :
                       Contains(mime_type, x),
       category |-> archives]>>

\* C21: for a file name whose extension is not registered the category is
\* decided by the MIME guess for the name, by the first rule that applies:
\* text/* -> documents, image/* -> images, video/* or audio/* -> media,
\* application/* with "pdf" -> documents, application/* with "zip", "tar" or
\* "compressed" -> archives; any other MIME type, or none, gives misc.
C21_MimeFallbackOrder ==
    (last.op = "classify_file" /\ LastSuffix \notin DOMAIN extension_map)
        => LET mime_type == GuessType(last.name)
               rules == FallbackRules(mime_type)
               passed == {i \in DOMAIN rules :
                             mime_type # NoMimeType /\ rules[i].test}
           IN  IF passed = {} THEN last.result.category = misc
               ELSE last.result.category =
                        rules[CHOOSE i \in passed : \A j \in passed : i <= j].category

\* C21, witness: an unregistered .mp3 name was classified as media through
\* its audio/* type.
C21_Witness ==
    /\ last.op = "classify_file"
    /\ LastSuffix \notin DOMAIN extension_map
    /\ MajorType(GuessType(last.name), <<"a", "u", "d", "i", "o">>)
    /\ last.result.category = media

(***************************************************************************)
(* More claims about the Tag Store (checked under SpecTags).  The calls    *)
(* looked at are those an enabled Tag Store makes on a regular file the    *)
(* user may read and write, on a file system that refuses no attribute.    *)
(***************************************************************************)
\* A regular file whose attributes can be read and written.
Taggable(f, file_path) ==
    /\ file_path \in DOMAIN f
    /\ f[file_path].kind = "file"
    /\ f[file_path].mode \in ReadableModes \cap WritableModes

\* The value of an attribute of a file, if it has it.
AttrOf(f, file_path, attr) ==
    IF attr \in DOMAIN f[file_path].xattrs THEN <<f[file_path].xattrs[attr]>>
    ELSE <<>>

\* The attributes of the file decode.
AttrsDecode(f, file_path) ==
    \A attr \in DOMAIN f[file_path].xattrs :
        Decodable(f[file_path].xattrs[attr])

\* The list of tags an attribute of a file holds (none without it).
TagsIn(f, file_path, attr) ==
    IF AttrOf(f, file_path, attr) = <<>> THEN <<>>
    ELSE ParseTags(AttrOf(f, file_path, attr)[1])

\* The set of the tags of a list.
TagSet(list) == {list[i] : i \in DOMAIN list}

\* The call just made is `op` of an enabled Tag Store on such a file.
TagStoreCall(op) ==
    /\ last'.op = op
    /\ tag_manager.enabled
    /\ refused = {}
    /\ Taggable(fs, last'.file_path)
    /\ AttrsDecode(fs, last'.file_path)

\* C22: set_category on an enabled Tag Store writes the category (and the
\* confidence when one is given) as native attributes and returns True;
\* whenever xdg_tags_compatibility is on, the mirrored list user.xdg.tags
\* then contains the category, is stored deduplicated and sorted, and still
\* holds every tag it held before.
C22_SetCategoryMirrors ==
    [][TagStoreCall("set_category") =>
          LET file_path == last'.file_path
              after == TagsIn(fs', file_path, xdg_tags_attr)
          IN  /\ last'.result = TRUE
              /\ last'.raised = "none"
              /\ AttrOf(fs', file_path, category_attr)
                     = <<last'.args.category>>
              /\ last'.args.confidence # <<>> =>
                     AttrOf(fs', file_path, confidence_attr)
                         = <<StrFloat(last'.args.confidence[1])>>
              /\ config.xdg_tags_compatibility =>
                     /\ InList(last'.args.category, after)
                     /\ after = SortedSet(after)
                     /\ TagSet(TagsIn(fs, file_path, xdg_tags_attr))
                            \subseteq TagSet(after)
      ]_vars

\* The tags a store holds after add_tags: the ones it held together with
\* the new ones, or the new ones alone.
Merged(cfg, before, new) ==
    IF cfg.preserve_existing_tags THEN TagSet(before) \cup TagSet(new)
    ELSE TagSet(new)

\* C23: add_tags(path, tags) leaves the tag set of each store equal to its
\* previous tags together with the new ones when preserve_existing_tags is
\* on, and equal to the new ones when it is off: the native store
\* user.flowsort.tags and, whenever xdg_tags_compatibility is on, the
\* mirrored store user.xdg.tags too.
C23_AddTagsMerges ==
    [][TagStoreCall("add_tags") =>
          LET file_path == last'.file_path
          IN  /\ TagSet(TagsIn(fs', file_path, tags_attr))
                     = Merged(config, TagsIn(fs, file_path, tags_attr),
                              last'.args.tags)
              /\ config.xdg_tags_compatibility =>
                     TagSet(TagsIn(fs', file_path, xdg_tags_attr))
                         = Merged(config, TagsIn(fs, file_path, xdg_tags_attr),
                                  last'.args.tags)
      ]_vars

\* C24: when the mirrored store is preferred (xdg_tags_compatibility and
\* prefer_xdg_tags), add_tags writes user.xdg.tags first and
\* user.flowsort.tags second: a failure of the native (backup) write does
\* not fail the call; a failure of the mirrored write makes the call return
\* False although the native write is still made; and add_tags never
\* raises, whatever it is called on.
C24_MirrorFirstBackupSecond ==
    [][last'.op = "add_tags" =>
          LET file_path == last'.file_path
              wanted(attr) == Merged(config, TagsIn(fs, file_path, attr),
                                     last'.args.tags)
              written(attr) ==
                  TagSet(TagsIn(fs', file_path, attr)) = wanted(attr)
          IN  /\ last'.raised = "none"
              /\ (/\ tag_manager.enabled
                  /\ config.xdg_tags_compatibility
                  /\ config.prefer_xdg_tags
                  /\ Taggable(fs, file_path)) =>
                     /\ xdg_tags_attr \notin refused =>
                            last'.result = TRUE /\ written(xdg_tags_attr)
                     /\ xdg_tags_attr \in refused => last'.result = FALSE
                     /\ tags_attr \notin refused => written(tags_attr)
      ]_vars

\* The stores remove_tags works on: the native one and, with
\* xdg_tags_compatibility, the mirrored one.
TagStores(cfg) ==
    {tags_attr} \cup (IF cfg.xdg_tags_compatibility THEN {xdg_tags_attr} ELSE {})

\* The tags of an attribute in the attributes a call found.
TagsBefore(call, attr) ==
    IF attr \in DOMAIN call.before THEN ParseTags(call.before[attr]) ELSE <<>>

\* C25: remove_tags(path, tags) takes the given tags out of the native list
\* and, with xdg_tags_compatibility, out of the mirrored list, and keeps
\* every other tag; a store whose list is empty afterwards has no tag
\* attribute at all, never an empty string.
C25_RemoveTagsDeletesEmpty ==
    [][TagStoreCall("remove_tags") =>
          LET file_path == last'.file_path
          IN  \A attr \in TagStores(config) :
                  /\ TagSet(TagsIn(fs', file_path, attr))
                         = TagSet(TagsIn(fs, file_path, attr))
                               \ TagSet(last'.args.tags)
                  /\ TagsIn(fs', file_path, attr) = <<>>
                         => AttrOf(fs', file_path, attr) = <<>>
      ]_vars

\* C25, witness: remove_tags took the last tags out of both stores, which
\* held some, and neither attribute is there any more.
C25_Witness ==
    /\ last.op = "remove_tags"
    /\ tag_manager.enabled
    /\ config.xdg_tags_compatibility
    /\ last.result = TRUE
    /\ \A attr \in TagStores(config) :
           /\ TagsBefore(last, attr) # <<>>
           /\ TagSet(TagsBefore(last, attr)) \subseteq TagSet(last.args.tags)
           /\ attr \notin DOMAIN fs[last.file_path].xattrs

\* C26: clear_all_tags on an enabled Tag Store leaves the file without
\* category, confidence and native tags attribute, and with
\* xdg_tags_compatibility without the mirrored attribute too (tags of other
\* tools included), so that get_category, get_confidence and get_tags all
\* return None afterwards; and it returns True when the file ends in that
\* state, also when some of the attributes were absent already.
C26_ClearAllLeavesNothing ==
    [][TagStoreCall("clear_all_tags") =>
          LET file_path == last'.file_path
          IN  /\ \A attr \in {category_attr, confidence_attr, tags_attr} :
                     AttrOf(fs', file_path, attr) = <<>>
              /\ config.xdg_tags_compatibility =>
                     AttrOf(fs', file_path, xdg_tags_attr) = <<>>
              /\ get_category(tag_manager, fs', file_path).result = <<>>
              /\ Tag_get_confidence(tag_manager, fs', file_path).result = <<>>
              /\ get_tags(tag_manager, config, fs', file_path).result = <<>>
              /\ last'.result = TRUE
      ]_vars

\* The metadata get_all_metadata reads from a file.
MetadataOf(f, file_path) ==
    get_all_metadata(tag_manager, config, f, file_path).result

NoMetadata == [category |-> <<>>, confidence |-> <<>>, tags |-> <<>>]

\* The call just made is copy_tags from a regular file whose attributes
\* decode to another such file.
CopyCall ==
    /\ TagStoreCall("copy_tags")
    /\ Taggable(fs, last'.args.source_path)
    /\ AttrsDecode(fs, last'.args.source_path)

\* C27: copy_tags from a source without metadata changes no attribute of
\* the destination and returns True; from a source with metadata, to a
\* destination that had no attribute, the destination afterwards has the
\* category, the confidence and the set of tags (as get_tags returns them)
\* of the source.
C27_CopyReappliesMetadata ==
    [][CopyCall =>
          LET source == MetadataOf(fs, last'.args.source_path)
              dest == MetadataOf(fs', last'.file_path)
          IN  /\ source = NoMetadata =>
                    /\ XattrsAt(fs', last'.file_path) = last'.before
                    /\ last'.result = TRUE
              /\ source # NoMetadata /\ last'.before = NoXattrs =>
                    /\ dest.category = source.category
                    /\ dest.confidence = source.confidence
                    /\ TagSet(OrEmpty(dest.tags)) = TagSet(OrEmpty(source.tags))
      ]_vars

(***************************************************************************)
(* The retag command.  A run yields the file system it leaves, the         *)
(* counters processed and skipped, what was done on each candidate visited *)
(* (skipped, would_tag, processed, failed -- the "Failed to tag" line --   *)
(* or raised) and the exception that has left the command (Exit is         *)
(* typer.Exit(1)).                                                         *)
(***************************************************************************)
\* `if existing_category` of an Optional string.
Truthy(optional) == optional # <<>> /\ optional[1] # <<>>

RetagDone(f, raised, outcome, classified) ==
    [fs |-> f, raised |-> raised, outcome |-> outcome,
     category |-> classified.category, confidence |-> classified.confidence]

\* retag, the body of the loop once the file is classified.
RetagClassified(tm, cfg, f, file_path, dry_run, classified) ==
    IF dry_run THEN RetagDone(f, "none", "would_tag", classified)
    ELSE LET written == set_category(tm, cfg, f, file_path,
                                     classified.category,
                                     <<classified.confidence>>)
         IN  IF written.raised # "none"
             THEN RetagDone(written.fs, written.raised, "raised", classified)
             ELSE IF written.result
             THEN RetagDone(written.fs, "none", "processed", classified)
             ELSE RetagDone(written.fs, "none", "failed", classified)

\* retag, the body of the loop for one file.
RetagFile(tm, cfg, em, f, file_path, force, dry_run) ==
    LET existing_category == get_category(tm, f, file_path)
        classified == FlowSort_classify_file(em, Basename(file_path))
    IN  IF existing_category.raised # "none"
        THEN RetagDone(f, existing_category.raised, "raised", classified)
        ELSE IF Truthy(existing_category.result) /\ ~force
        THEN RetagDone(f, "none", "skipped", classified)
        ELSE RetagClassified(tm, cfg, f, file_path, dry_run, classified)

\* The run of retag after one more file.
RetagStep(run, file_path, done) ==
    [fs |-> done.fs,
     raised |-> done.raised,
     processed |-> IF done.outcome = "processed" THEN run.processed + 1
                   ELSE run.processed,
     skipped |-> IF done.outcome = "skipped" THEN run.skipped + 1
                 ELSE run.skipped,
     files |-> Append(run.files,
                      [file_path |-> file_path, outcome |-> done.outcome,
                       category |-> done.category,
                       confidence |-> done.confidence])]

\* retag, the loop over files_to_process: the file is visited, the run is
\* brought up to date, and the loop goes on from there.
RECURSIVE RetagLoop(_, _, _, _, _, _, _)
RetagLoop(tm, cfg, em, run, files_to_process, force, dry_run) ==
    IF files_to_process = <<>> \/ run.raised # "none" THEN run
    ELSE CHOOSE r \in
             {RetagLoop(tm, cfg, em, next, Tail(files_to_process), force, dry_run) :
                  next \in {RetagStep(run, Head(files_to_process), done) :
                               done \in {RetagFile(tm, cfg, em, run.fs,
                                                   Head(files_to_process),
                                                   force, dry_run)}}} : TRUE

\* retag: target_path.
RetagTarget(cfg, path) ==
    IF path = <<>> THEN PathJoin(cfg.inbox_path, all_) ELSE path[1]

\* retag: the files of files_to_process, which rglob or iterdir yield in
\* some order.
RetagCandidates(tm, cfg, f, path, recursive) ==
    LET target_path == RetagTarget(cfg, path)
    IN  IF path # <<>> /\ ~Exists(f, target_path) THEN {}
        ELSE IF ~tm.enabled THEN {}
        ELSE IF IsFile(f, target_path) THEN {target_path}
        ELSE IF ~IsDir(f, target_path) THEN {}
        ELSE IF recursive
        THEN {q \in Descendants(f, target_path) : IsFile(f, q)}
        ELSE {q \in Children(f, target_path) : IsFile(f, q)}

NoRetag(f, raised) ==
    [fs |-> f, raised |-> raised, processed |-> 0, skipped |-> 0,
     files |-> <<>>]

\* The retag command; files_to_process is the list it has built.
retag(tm, cfg, em, f, path, files_to_process, force, dry_run) ==
    IF path # <<>> /\ ~Exists(f, path[1]) THEN NoRetag(f, "Exit")
    ELSE IF ~tm.enabled THEN NoRetag(f, "Exit")
    ELSE RetagLoop(tm, cfg, em, NoRetag(f, "none"), files_to_process,
                   force, dry_run)

(***************************************************************************)
(* The retag command at work (SpecRetag): INBOX/all holds a text file, a   *)
(* read-only picture and a directory with a file without extension.  The   *)
(* files are tagged, another tool writes user.xdg.tags, and retag is run   *)
(* with each combination of its options.                                   *)
(***************************************************************************)
t_txt_name == <<"t", ".", "t", "x", "t">>
p_png_name == <<"p", ".", "p", "n", "g">>
sub_name == <<"s", "u", "b">>
n_name == <<"n">>

RetagFiles(cfg) ==
    {PathJoin(PathJoin(cfg.inbox_path, all_), t_txt_name),
     PathJoin(PathJoin(cfg.inbox_path, all_), p_png_name),
     PathJoin(PathJoin(PathJoin(cfg.inbox_path, all_), sub_name), n_name)}

\* The files retag can write to.
RetagWritable(cfg) ==
    {PathJoin(PathJoin(cfg.inbox_path, all_), t_txt_name),
     PathJoin(PathJoin(PathJoin(cfg.inbox_path, all_), sub_name), n_name)}

\* The --path options: none, a file, a path that does not exist.
RetagPaths(cfg) ==
    {<<>>,
     <<PathJoin(PathJoin(cfg.inbox_path, all_), t_txt_name)>>,
     <<PathJoin(cfg.inbox_path, n_name)>>}

RetagLayout(cfg) ==
    LET base == setup_directories([q \in {<<>>} |-> DirEntry], cfg).fs
        dir == PathJoin(PathJoin(cfg.inbox_path, all_), sub_name)
    IN  [q \in DOMAIN base \cup {dir} \cup RetagFiles(cfg) |->
            IF q \in DOMAIN base THEN base[q]
            ELSE IF q = dir THEN DirEntry
            ELSE IF q \in RetagWritable(cfg) THEN FileEntry(1, "rw-r--r--")
            ELSE FileEntry(2, "r--r--r--")]

InitRetag ==
    /\ config \in OrganizerConfigs
    /\ extension_map = BuildExtensionMap(config)
    /\ subject = <<>>
    /\ created = 0
    /\ returned = <<>>
    /\ \E probe \in BOOLEAN : tag_manager = XattrTagManager(config, probe)
    /\ refused = {}
    /\ writes = 0
    /\ collectors = NoCollectors
    /\ fs = RetagLayout(config)
    /\ last = NoCall

\* The retag command is run; rglob or iterdir yield files_to_process.  It
\* is one of the at most MaxTagWrites writes of a behaviour.
Retag(path, recursive, force, dry_run, files_to_process) ==
    /\ writes < MaxTagWrites
    /\ writes' = writes + 1
    /\ \E r \in {retag(tag_manager, config, extension_map, fs, path,
                       files_to_process, force, dry_run)} :
           /\ fs' = r.fs
           /\ last' = [op |-> "retag", path |-> path, recursive |-> recursive,
                       force |-> force, dry_run |-> dry_run,
                       files_to_process |-> files_to_process,
                       processed |-> r.processed, skipped |-> r.skipped,
                       files |-> r.files, raised |-> r.raised]
    /\ UNCHANGED <<tag_manager, refused, config, extension_map,
                   collectors, subject, created, returned>>

NextRetag ==
    \/ \E file_path \in RetagWritable(config) : \E category \in TagCategories :
           \E confidence \in TagConfidences :
               SetCategory(file_path, category, confidence)
    \/ \E file_path \in RetagWritable(config) :
           \E value \in ForeignValues[xdg_tags_attr] :
               ForeignWrite(file_path, xdg_tags_attr, value)
    \/ \E path \in RetagPaths(config) : \E recursive, force, dry_run \in BOOLEAN :
           \E files_to_process \in
                  Orders(RetagCandidates(tag_manager, config, fs, path, recursive)) :
               Retag(path, recursive, force, dry_run, files_to_process)

SpecRetag == InitRetag /\ [][NextRetag]_vars

(***************************************************************************)
(* Claims about the retag command (checked under SpecRetag).               *)
(***************************************************************************)
\* The visits of a file that a run of retag has recorded.
Visits(call, file_path) ==
    {j \in DOMAIN call.files : call.files[j].file_path = file_path}

\* The file carries the record classify_file gives for its name.
Recorded(f, file_path) ==
    LET classified == FlowSort_classify_file(extension_map, Basename(file_path))
    IN  /\ AttrOf(f, file_path, category_attr) = <<classified.category>>
        /\ AttrOf(f, file_path, confidence_attr)
               = <<StrFloat(classified.confidence)>>

\* The file carries a category tag.
Carried(f, file_path) == Truthy(get_category(tag_manager, f, file_path).result)

\* How many of the visits of a run have an outcome.
Outcomes(call, outcome) ==
    Cardinality({j \in DOMAIN call.files : call.files[j].outcome = outcome})

\* C28: retag writes the (category, confidence) record on a candidate
\* exactly when dry-run is off and (force is on or the candidate carries no
\* category), a write the Tag Store refuses being a failure; a candidate
\* that carries a category, with force off, is skipped and keeps its
\* attributes; in dry-run mode the file system does not change; and every
\* candidate is visited once and is counted as processed, as skipped or as
\* failed (in dry-run mode: as skipped or as a file that would be tagged).
C28_RetagWritesWhenDue ==
    [][last'.op = "retag" =>
          /\ \A i \in DOMAIN last'.files_to_process :
                 LET file_path == last'.files_to_process[i]
                     due == ~last'.dry_run
                            /\ (last'.force \/ ~Carried(fs, file_path))
                 IN  /\ Cardinality(Visits(last', file_path)) = 1
                     /\ \A j \in Visits(last', file_path) :
                            LET outcome == last'.files[j].outcome
                            IN  /\ due => outcome \in {"processed", "failed"}
                                /\ outcome = "processed" =>
                                       due /\ Recorded(fs', file_path)
                                /\ ~due => XattrsAt(fs', file_path)
                                               = XattrsAt(fs, file_path)
                                /\ Carried(fs, file_path) /\ ~last'.force
                                       => outcome = "skipped"
                                /\ ~due /\ ~last'.dry_run => outcome = "skipped"
                                /\ last'.dry_run =>
                                       outcome \in {"skipped", "would_tag"}
          /\ last'.dry_run => fs' = fs
          /\ last'.processed = Outcomes(last', "processed")
          /\ last'.skipped = Outcomes(last', "skipped")
          /\ Len(last'.files) = Len(last'.files_to_process)
      ]_vars

(***************************************************************************)
(* Collisions (SpecRename): files of the same name arrive again after a    *)
(* collect, among them one with a compression suffix that is in no         *)
(* category's extensions (mimetypes.encodings_map has ".Z").               *)
(***************************************************************************)
r_tar_Z == <<"r", ".", "t", "a", "r", ".", "Z">>

RenameNames == {report_pdf, photo_jpg, r_tar_Z}

NextRename ==
    \/ \E name \in RenameNames : Download(name, MaxCollectFiles)
    \/ \E entries \in Orders(Children(fs, config.downloads_path)) :
           CollectDownloads(entries)

SpecRename == InitCollect /\ [][NextRename]_vars

\* C29: collect links and tags every file under the category (and the
\* confidence) classify_file gives for the name the file had in the
\* downloads directory, whether move_file_to_all has renamed it or not.
C29_RenameKeepsCategory ==
    [][last'.op = "collect_downloads" =>
          \A i \in DOMAIN last'.files :
              LET file == last'.files[i]
              IN  file.category # <<>> =>
                      /\ file.category
                             = FlowSort_classify_file(
                                   extension_map,
                                   Basename(file.file_path)).category
                      /\ FlowSort_classify_file(extension_map,
                                                Basename(file.target_file))
                             = FlowSort_classify_file(extension_map,
                                                      Basename(file.file_path))
      ]_vars

(***************************************************************************)
(* A category named like a layout directory (SpecAllCategory): the user's  *)
(* configuration has a category "all", whose directory INBOX/all is the    *)
(* directory of the real files.                                            *)
(***************************************************************************)
AllCategories ==
    <<
      [name |-> all_, extensions |-> << <<".", "p", "d", "f">> >>],
      [name |-> images, extensions |-> << <<".", "j", "p", "g">> >>]
    >>

AllCategoryConfigs == {MakeConfig(SmallCategories), MakeConfig(AllCategories)}

InitAllCategory ==
    /\ config \in AllCategoryConfigs
    /\ tag_manager = XattrTagManager(config, TRUE)
    /\ refused = {}
    /\ writes = 0
    /\ collectors = NoCollectors
    /\ extension_map = BuildExtensionMap(config)
    /\ subject = <<>>
    /\ created = 0
    /\ returned = <<>>
    /\ fs = setup_directories(
                [q \in {<<>>, config.downloads_path} |-> DirEntry], config).fs
    /\ last = NoCall

NextAllCategory ==
    \/ \E name \in CollectNames : Download(name, MaxCollectFiles)
    \/ \E entries \in Orders(Children(fs, config.downloads_path)) :
           CollectDownloads(entries)

SpecAllCategory == InitAllCategory /\ [][NextAllCategory]_vars

\* C30: after collect_downloads has returned normally, every file it has
\* counted is a regular file of INBOX/all with the content it had in the
\* downloads directory, and every entry INBOX/all had before is still
\* there, of the same kind and with the same content.
C30_CollectKeepsContent ==
    [][last'.op = "collect_downloads" /\ last'.raised = "none" =>
          /\ \A i \in DOMAIN last'.files :
                 LET file == last'.files[i]
                 IN  /\ Parent(file.target_file) = InboxAll
                     /\ file.target_file \in DOMAIN fs'
                     /\ fs'[file.target_file].kind = "file"
                     /\ fs'[file.target_file].content
                            = fs[file.file_path].content
          /\ \A q \in Children(fs, InboxAll) :
                 /\ q \in DOMAIN fs'
                 /\ fs'[q].kind = fs[q].kind
                 /\ fs[q].kind = "file" => fs'[q].content = fs[q].content
      ]_vars

====
